---- MODULE Spec2Model ----
(***************************************************************************)
(* Velocity: the multi-engine database access layer.                       *)
(*                                                                         *)
(* The model covers the connection registry (ConnectionPoolManager: a      *)
(* tokio RwLock around a HashMap from connection id to Arc<DatabasePool>)  *)
(* and the mutation executor (execute_changes), run by concurrent tasks,   *)
(* and the table-data request: the query compiler of QueryOptions and      *)
(* fetch_table_data, which runs the compiled text on a pool; the commands  *)
(* that run raw SQL and DDL and emit the schema-changed event; and the     *)
(* schema operations: list_tables and the schema lists, the generated DDL  *)
(* and get_table_schema.                                                   *)
(* Every await point of the source is the boundary of an action.  Tasks    *)
(* call again and again; what a call left behind (its result, its locals)  *)
(* stays visible until the task's next call.                               *)
(***************************************************************************)
EXTENDS Integers, Sequences, FiniteSets, TLC

(***************************************************************************)
(* Bounds of the model.                                                    *)
(***************************************************************************)
MaxPools == 2      \* DatabasePool values alive at the same time
MaxChanges == 3    \* PendingChange values in the batches of the calls at hand
MaxFilters == 2    \* ColumnFilter values in the filters of a request
MaxReturned == 4   \* rows a caller has been given when it stops paging

Ids == {"a", "b"}                     \* logical connection ids
Tasks == {"t1", "t2"}                 \* concurrent callers (tokio tasks)
PKs == {1, 2}                         \* primary-key values of the table
RowIds == {1}                         \* PendingChange.row_id
Absent == "-"                         \* no row under a primary key
NewValues == {"y"}                    \* PendingChange.new_value

Relational == {"Postgres", "MySQL", "SQLite"}
Kinds == Relational \cup {"SQLServer", "Redis", "MongoDB"}

\* The connection directories of the runs: the engine behind each id.
Directories ==
    {[a |-> "Postgres", b |-> "Redis"],
     [a |-> "MySQL", b |-> "MongoDB"],
     [a |-> "SQLite", b |-> "SQLServer"]}

NoTask == "none"
NoPool == 0
NoTx == 0
PoolIds == 1..MaxPools
TxIds == 1..Cardinality(Tasks)

VARIABLES
    directory,      \* the Connection records: id -> engine kind
    pools,          \* ConnectionPoolManager.pools: id -> pool (NoPool: no entry)
    arena,          \* the DatabasePool values: [state, id]
    rwWriter,       \* the task holding the RwLock write guard, or NoTask
    rwReaders,      \* the tasks holding an RwLock read guard
    pc,             \* each task's position
    call,           \* each task's current (or last) call: [op, id]
    handle,         \* the pool each task holds (owned, Arc clone or borrow)
    ret,            \* what the task's last call returned
    removed,        \* history: what disconnect did with the pool it removed
    db,             \* the table behind each connection id, as committed
    txs,            \* the transactions: [state, owner, id, log]
    txid,           \* the transaction of each task's execute_changes call
    outcome,        \* history: how the call's transaction ended
    done,           \* history: the changes consumed: [type, res, stmt, rows]
    rows_affected,  \* execute_changes local
    errors,         \* execute_changes local
    wrote,          \* history: the call changed the committed table
    lastDone,       \* history: the last connect or disconnect done, per id
    options,        \* the QueryOptions of the table-data request at hand
    engine,         \* the DatabasePool variant the request runs on
    qpc,            \* the position of the request
    compiled,       \* what the query compiler returned for it
    response,       \* the Result<TableDataResponse, VelocityError> of it
    returned,       \* history: the rows of the pages the caller was given
    command,        \* the command or schema operation at hand, with its arguments
    cpc,            \* the position of the command
    result,         \* what the command returned
    issued,         \* the statements the command sent to the server
    events,         \* the events emitted on the tauri::AppHandle
    catalog         \* the columns of the table the server holds, if any

\* The registry and the mutation executor; the table-data request.
rvars == <<directory, pools, arena, rwWriter, rwReaders, pc, call, handle, ret,
           removed, db, txs, txid, outcome, done, rows_affected, errors, wrote,
           lastDone>>
qvars == <<options, engine, qpc, compiled, response, returned>>
svars == <<command, cpc, result, issued, events, catalog>>
vars == <<rvars, qvars, svars>>

(***************************************************************************)
(* serde_json::Value and the types of db/filters.rs.                       *)
(***************************************************************************)
\* A JSON value: its type, and its number, string or elements.
J(t, n, s, a) == [t |-> t, n |-> n, s |-> s, a |-> a]
JNull == J("null", 0, "", << >>)
JNum(n) == J("number", n, "", << >>)
JStr(s) == J("string", 0, s, << >>)
JArr(a) == J("array", 0, "", a)
\* Option::None, for a filter value and for an absent next_cursor.
None == J("none", 0, "", << >>)

FilterOperators ==
    {"Equals", "NotEquals", "Like", "IsNull", "IsNotNull", "In",
     "GreaterThan", "LessThan"}
FilterLogics == {"And", "Or"}
Columns == {"id", "name"}

\* Option<SortConfig> and Option<CursorConfig>.
NoSort == [some |-> FALSE, column |-> "", direction |-> "Asc"]
SomeSort(c, d) == [some |-> TRUE, column |-> c, direction |-> d]
NoCursor == [some |-> FALSE, column |-> "", direction |-> "After", value |-> None]
SomeCursor(c, d, v) == [some |-> TRUE, column |-> c, direction |-> d, value |-> v]

\* QueryOptions::default()
DefaultOptions ==
    [filters |-> << >>, filter_logic |-> "And", sort |-> NoSort,
     limit |-> 0, offset |-> 0, cursor |-> NoCursor, skip_count |-> FALSE,
     selected_columns |-> << >>]

\* No table-data request is made.
NoOptions == DefaultOptions
NoCompiled == [kind |-> "none"]
NoResponse == [kind |-> "none"]
NoRequest ==
    /\ options = NoOptions
    /\ engine = "Postgres"
    /\ qpc = "idle"
    /\ compiled = NoCompiled
    /\ response = NoResponse
    /\ returned = << >>

\* No command is made.
NoCommand ==
    /\ command = [op |-> "none"]
    /\ cpc = "idle"
    /\ result = [kind |-> "none"]
    /\ issued = << >>
    /\ events = << >>
    /\ catalog = << >>

NoRet == [kind |-> "none"]
OkUnit == [kind |-> "Ok"]
Err(variant, msg) == [kind |-> "Err", variant |-> variant, msg |-> msg]

FreePool == [state |-> "free", id |-> "a"]
FreeTx == [state |-> "free", owner |-> NoTask, id |-> "a", log |-> << >>]
InitialTable == [pk \in PKs |-> IF pk = 1 THEN "x" ELSE Absent]

\* No call made yet, no lock held, the tables as they start.
Quiet ==
    /\ rwWriter = NoTask
    /\ rwReaders = {}
    /\ pc = [t \in Tasks |-> "idle"]
    /\ call = [t \in Tasks |-> [op |-> "none", id |-> "a"]]
    /\ handle = [t \in Tasks |-> NoPool]
    /\ ret = [t \in Tasks |-> NoRet]
    /\ removed = [t \in Tasks |-> "none"]
    /\ db = [id \in Ids |-> InitialTable]
    /\ txs = [x \in TxIds |-> FreeTx]
    /\ txid = [t \in Tasks |-> NoTx]
    /\ outcome = [t \in Tasks |-> "none"]
    /\ done = [t \in Tasks |-> << >>]
    /\ rows_affected = [t \in Tasks |-> 0]
    /\ errors = [t \in Tasks |-> << >>]
    /\ lastDone = [id \in Ids |-> "none"]
    /\ wrote = [t \in Tasks |-> FALSE]

Init ==
    /\ directory \in Directories
    /\ pools = [id \in Ids |-> NoPool]
    /\ arena = [p \in PoolIds |-> FreePool]
    /\ Quiet
    /\ NoRequest
    /\ NoCommand

(***************************************************************************)
(* tokio::sync::RwLock: many readers or one writer.                        *)
(***************************************************************************)
CanRead == rwWriter = NoTask
CanWrite == rwWriter = NoTask /\ rwReaders = {}

(***************************************************************************)
(* Arc<DatabasePool>: a pool is referenced by the registry entry that      *)
(* holds it and by every task holding it.  When the last reference goes,   *)
(* the pool is dropped, which shuts its connections without close().       *)
(***************************************************************************)
Referenced(p, reg, hnd) ==
    \/ \E id \in Ids : reg[id] = p
    \/ \E t \in Tasks : hnd[t] = p

DropUnreferenced(ar, reg, hnd) ==
    [p \in PoolIds |->
        IF ar[p].state = "open" /\ ~Referenced(p, reg, hnd)
        THEN FreePool
        ELSE ar[p]]

Live(p) == arena[p].state = "open"
KindOf(p) == directory[arena[p].id]
MinOf(S) == CHOOSE x \in S : \A y \in S : x <= y

(***************************************************************************)
(* A task starts a call; the locals of its last call go.                   *)
(***************************************************************************)
Begin(t, op, id) ==
    /\ pc[t] = "idle"
    /\ call' = [call EXCEPT ![t] = [op |-> op, id |-> id]]
    /\ removed' = [removed EXCEPT ![t] = "none"]
    /\ txid' = [txid EXCEPT ![t] = NoTx]
    /\ outcome' = [outcome EXCEPT ![t] = "none"]
    /\ done' = [done EXCEPT ![t] = << >>]
    /\ rows_affected' = [rows_affected EXCEPT ![t] = 0]
    /\ errors' = [errors EXCEPT ![t] = << >>]
    /\ wrote' = [wrote EXCEPT ![t] = FALSE]
    /\ UNCHANGED <<directory, db, txs, lastDone>>
    /\ UNCHANGED <<qvars, svars>>

\* What the later steps of the registry calls leave alone; with the
\* history of the ids, for the steps that do not end a connect or a
\* disconnect.
callFrame ==
    <<directory, call, db, txs, txid, outcome, done, rows_affected, errors, wrote,
      qvars, svars>>
localFrame == <<callFrame, lastDone>>

(***************************************************************************)
(* ConnectionPoolManager::connect                                          *)
(***************************************************************************)
\* DatabaseFactory::create_pool(connection).await? -- before any lock.
ConnectCreate(t, id) ==
    /\ Begin(t, "connect", id)
    /\ \E p \in PoolIds :
        /\ arena[p].state = "free"
        /\ \A q \in PoolIds : arena[q].state = "free" => p <= q
        /\ arena' = [arena EXCEPT ![p] = [state |-> "open", id |-> id]]
        /\ handle' = [handle EXCEPT ![t] = p]
    /\ pc' = [pc EXCEPT ![t] = "connect_lock"]
    /\ ret' = [ret EXCEPT ![t] = NoRet]
    /\ UNCHANGED <<pools, rwWriter, rwReaders>>

\* create_pool fails: the ? returns the error and nothing else happens.
ConnectFailForgetting(t, id) ==
    /\ Begin(t, "connect", id)
    /\ ret' = [ret EXCEPT ![t] = Err("Connection", "create_pool")]
    /\ pools' = [pools EXCEPT ![id] = NoPool]
    /\ UNCHANGED <<arena, rwWriter, rwReaders, handle, pc>>
ConnectFail(t, id) ==
    /\ Begin(t, "connect", id)
    /\ ret' = [ret EXCEPT ![t] = Err("Connection", "create_pool")]
    /\ UNCHANGED <<pools, arena, rwWriter, rwReaders, handle, pc>>

\* let mut pools = self.pools.write().await;
ConnectLock(t) ==
    /\ pc[t] = "connect_lock"
    /\ CanWrite
    /\ rwWriter' = t
    /\ pc' = [pc EXCEPT ![t] = "connect_insert"]
    /\ UNCHANGED <<pools, arena, rwReaders, handle, ret, removed>>
    /\ UNCHANGED localFrame

\* pools.insert(id, Arc::new(pool)); Ok(()) -- the entry replaced, if any, is
\* dropped, and the guard goes at the end of the function.
ConnectInsert(t) ==
    /\ pc[t] = "connect_insert"
    /\ LET reg == [pools EXCEPT ![call[t].id] = handle[t]]
           hnd == [handle EXCEPT ![t] = NoPool]
       IN /\ pools' = reg
          /\ handle' = hnd
          /\ arena' = DropUnreferenced(arena, reg, hnd)
    /\ rwWriter' = NoTask
    /\ ret' = [ret EXCEPT ![t] = OkUnit]
    /\ lastDone' = [lastDone EXCEPT ![call[t].id] = "connect"]
    /\ pc' = [pc EXCEPT ![t] = "idle"]
    /\ UNCHANGED <<rwReaders, removed>>
    /\ UNCHANGED callFrame

(***************************************************************************)
(* ConnectionPoolManager::disconnect                                       *)
(***************************************************************************)
\* The call is made; it waits at self.pools.write().await.
DisconnectCall(t, id) ==
    /\ Begin(t, "disconnect", id)
    /\ pc' = [pc EXCEPT ![t] = "disc_lock"]
    /\ ret' = [ret EXCEPT ![t] = NoRet]
    /\ UNCHANGED <<pools, arena, rwWriter, rwReaders, handle>>

\* let mut pools = self.pools.write().await;
DisconnectLock(t) ==
    /\ pc[t] = "disc_lock"
    /\ CanWrite
    /\ rwWriter' = t
    /\ pc' = [pc EXCEPT ![t] = "disc_remove"]
    /\ UNCHANGED <<pools, arena, rwReaders, handle, ret, removed>>
    /\ UNCHANGED localFrame

\* Arc::try_unwrap(pool) succeeds when nobody else holds the pool.
TryUnwrapOk(p) == \A u \in Tasks : handle[u] # p

\* pool.close().await is awaited for the sqlx pools only.
ClosedOnDisconnect(kind) == kind \in {"Postgres", "MySQL", "SQLite"}

\* if let Some(pool) = pools.remove(id) { if let Ok(p) = Arc::try_unwrap(pool)
\* { match p { relational => pool.close().await, others => {} } } } Ok(())
DisconnectRemove(t) ==
    /\ pc[t] = "disc_remove"
    /\ LET id == call[t].id
           p == pools[id]
           reg == [pools EXCEPT ![id] = NoPool]
       IN /\ pools' = reg
          /\ IF p # NoPool /\ TryUnwrapOk(p) /\ ClosedOnDisconnect(KindOf(p))
             THEN \* pool.close().await, the write guard still held
                  /\ handle' = [handle EXCEPT ![t] = p]
                  /\ pc' = [pc EXCEPT ![t] = "disc_close"]
                  /\ UNCHANGED <<arena, rwWriter, ret, removed, lastDone>>
             ELSE \* nothing to close, or the pool is shared and left as it is
                  /\ arena' = DropUnreferenced(arena, reg, handle)
                  /\ removed' = [removed EXCEPT ![t] =
                        IF p = NoPool THEN "absent"
                        ELSE IF TryUnwrapOk(p) THEN "dropped" ELSE "shared"]
                  /\ rwWriter' = NoTask
                  /\ ret' = [ret EXCEPT ![t] = OkUnit]
                  /\ lastDone' = [lastDone EXCEPT ![id] = "disconnect"]
                  /\ pc' = [pc EXCEPT ![t] = "idle"]
                  /\ UNCHANGED handle
    /\ UNCHANGED rwReaders
    /\ UNCHANGED callFrame

\* pool.close().await returns; the function ends and the guard goes.
DisconnectClosed(t) ==
    /\ pc[t] = "disc_close"
    /\ arena' = [arena EXCEPT ![handle[t]] = FreePool]
    /\ removed' = [removed EXCEPT ![t] = "closed"]
    /\ handle' = [handle EXCEPT ![t] = NoPool]
    /\ rwWriter' = NoTask
    /\ ret' = [ret EXCEPT ![t] = OkUnit]
    /\ lastDone' = [lastDone EXCEPT ![call[t].id] = "disconnect"]
    /\ pc' = [pc EXCEPT ![t] = "idle"]
    /\ UNCHANGED <<pools, rwReaders>>
    /\ UNCHANGED callFrame

(***************************************************************************)
(* ConnectionPoolManager::is_connected and get_pool                        *)
(***************************************************************************)
\* The call is made; it waits at self.pools.read().await.
IsConnectedCall(t, id) ==
    /\ Begin(t, "is_connected", id)
    /\ pc' = [pc EXCEPT ![t] = "isc_lock"]
    /\ ret' = [ret EXCEPT ![t] = NoRet]
    /\ UNCHANGED <<pools, arena, rwWriter, rwReaders, handle>>

\* self.pools.read().await.contains_key(id) -- the guard is a temporary.
IsConnected(t) ==
    /\ pc[t] = "isc_lock"
    /\ CanRead
    /\ ret' = [ret EXCEPT ![t] = [kind |-> "Ok", value |-> pools[call[t].id] # NoPool]]
    /\ pc' = [pc EXCEPT ![t] = "idle"]
    /\ UNCHANGED <<pools, arena, rwWriter, rwReaders, handle, removed>>
    /\ UNCHANGED localFrame

\* The operations that go through get_pool and then run on the pool.
Delegated == {"query", "execute_changes"}

\* A delegated operation is called: self.get_pool(connection_id).await
DelegatedCall(t, op, id) ==
    /\ Begin(t, op, id)
    /\ pc' = [pc EXCEPT ![t] = "get_pool"]
    /\ ret' = [ret EXCEPT ![t] = NoRet]
    /\ UNCHANGED <<pools, arena, rwWriter, rwReaders, handle>>

\* The error of a delegated operation on an id the registry does not hold.
NotConnected(op) ==
    IF op \in {"execute_changes", "execute_changes_legacy"}
    THEN Err("NotFound", "Connection not found")
    ELSE Err("Connection", "Not connected")

\* Where the operation goes once it holds the pool.
Body(op) == IF op = "query" THEN "op_io" ELSE "mut_begin"

\* The read guard a lookup still holds when it hands the pool to the body:
\* none for get_pool, whose guard is a temporary of one expression.
GuardKept(t, op) == IF op = "execute_changes_legacy" THEN {t} ELSE {}

\* get_pool: self.pools.read().await.get(id).cloned(), the caller mapping
\* None to its error; and the lookup of db/pool.rs execute_changes:
\* let pools = self.pools.read().await; let pool = pools.get(id).ok_or_else(..)?
Lookup(t) ==
    /\ pc[t] = "get_pool"
    /\ CanRead
    /\ LET p == pools[call[t].id]
       IN IF p = NoPool
          THEN /\ ret' = [ret EXCEPT ![t] = NotConnected(call[t].op)]
               /\ pc' = [pc EXCEPT ![t] = "idle"]
               /\ UNCHANGED <<handle, rwReaders>>
          ELSE /\ handle' = [handle EXCEPT ![t] = p]
               /\ rwReaders' = rwReaders \cup GuardKept(t, call[t].op)
               /\ pc' = [pc EXCEPT ![t] = Body(call[t].op)]
               /\ UNCHANGED ret
    /\ UNCHANGED <<pools, arena, rwWriter, removed>>
    /\ UNCHANGED localFrame

\* The operation returns r: its pool handle and its read guard (if it holds
\* one) are dropped.
Return(t, r) ==
    /\ ret' = [ret EXCEPT ![t] = r]
    /\ pc' = [pc EXCEPT ![t] = "idle"]
    /\ LET hnd == [handle EXCEPT ![t] = NoPool]
       IN /\ handle' = hnd
          /\ arena' = DropUnreferenced(arena, pools, hnd)
    /\ rwReaders' = rwReaders \ {t}
    /\ UNCHANGED <<directory, pools, rwWriter, call, removed, lastDone>>
    /\ UNCHANGED <<qvars, svars>>

\* list_databases, list_tables, get_table_schema, get_table_data, ...:
\* the delegate runs its database I/O on the cloned handle and returns.
QueryIO(t) ==
    /\ pc[t] = "op_io"
    /\ \E r \in {[kind |-> "Ok"], Err("Query", "driver")} : Return(t, r)
    /\ UNCHANGED <<db, txs, txid, outcome, done, rows_affected, errors, wrote>>

\* execute_changes of db/pool.rs is called; it waits at self.pools.read().await
LegacyCall(t, id) ==
    /\ Begin(t, "execute_changes_legacy", id)
    /\ pc' = [pc EXCEPT ![t] = "get_pool"]
    /\ ret' = [ret EXCEPT ![t] = NoRet]
    /\ UNCHANGED <<pools, arena, rwWriter, rwReaders, handle>>

(***************************************************************************)
(* ConnectionPoolManager::test_connection -> DatabaseFactory::             *)
(* test_connection: an associated function, with no &self.                 *)
(***************************************************************************)
\* The call is made: the throwaway pool (max_connections(1)) is a local of
\* the function, connected and probed while the task waits.
TestCall(t, id) ==
    /\ Begin(t, "test_connection", id)
    /\ pc' = [pc EXCEPT ![t] = "test_io"]
    /\ ret' = [ret EXCEPT ![t] = NoRet]
    /\ UNCHANGED <<pools, arena, rwWriter, rwReaders, handle>>

\* The results of test_connection: connect(..) failed, the probe failed,
\* or the probe succeeded and the throwaway pool was closed.
TestResults ==
    {OkUnit, Err("Connection", "connect"), Err("Query", "probe")}

\* A variant of the probe that unregisters the tested id on its way out.
TestProbeForgetting(t, r) ==
    /\ pc[t] = "test_io"
    /\ ret' = [ret EXCEPT ![t] = r]
    /\ pc' = [pc EXCEPT ![t] = "idle"]
    /\ pools' = [pools EXCEPT ![call[t].id] = NoPool]
    /\ UNCHANGED <<arena, rwWriter, rwReaders, handle, removed>>
    /\ UNCHANGED localFrame

\* .connect(&url).await.map_err(Connection)?; SELECT 1 / PING
\* .map_err(Query)?; pool.close().await; Ok(())
TestProbe(t, r) ==
    /\ pc[t] = "test_io"
    /\ ret' = [ret EXCEPT ![t] = r]
    /\ pc' = [pc EXCEPT ![t] = "idle"]
    /\ UNCHANGED <<pools, arena, rwWriter, rwReaders, handle, removed>>
    /\ UNCHANGED localFrame

(***************************************************************************)
(* The table behind a connection and the statements of a batch.            *)
(***************************************************************************)
ChangeTypes == {"insert", "update", "delete"}

\* PendingChange: change_type, row_id and new_value.
Changes == [type : ChangeTypes, row_id : RowIds, new_value : NewValues]

\* The match arms on change.change_type: the statements each engine builds.
\* Every other change_type falls to `_ => continue`.
StatementsOf(kind) ==
    CASE kind = "Postgres" -> {"update", "delete", "insert"}
      [] kind = "MySQL" -> {"update", "delete"}
      [] kind = "SQLite" -> {"update", "delete"}
      [] OTHER -> {}

\* A variant of the match on the pool that lets every engine through.
TransactionalAny(kind) == kind \in Kinds

\* The match arms on the pool: the engines execute_changes opens a
\* transaction on; every other engine falls to `_ => return Err(..)`.
Transactional(kind) == kind \in {"Postgres", "MySQL", "SQLite"}

FreePKs(table) == {pk \in PKs : table[pk] = Absent}

\* The statement of a change as the database runs it on `table`:
\* [type, pk, value].  An INSERT names no key: the table assigns the next one.
StatementOf(c, table) ==
    [type |-> c.type,
     pk |-> IF c.type = "insert" /\ FreePKs(table) # {}
            THEN MinOf(FreePKs(table)) ELSE c.row_id,
     value |-> c.new_value]

\* An INSERT into a full table cannot succeed; every statement may fail.
CanSucceed(c, table) == c.type = "insert" => FreePKs(table) # {}

\* r.rows_affected() of a statement that succeeded.
RowsOf(s, table) ==
    IF s.type = "insert" THEN 1
    ELSE IF table[s.pk] = Absent THEN 0 ELSE 1

ApplyStatement(table, s) ==
    CASE s.type = "insert" -> [table EXCEPT ![s.pk] = s.value]
      [] s.type = "update" ->
            IF table[s.pk] = Absent THEN table ELSE [table EXCEPT ![s.pk] = s.value]
      [] s.type = "delete" -> [table EXCEPT ![s.pk] = Absent]

RECURSIVE ApplyLog(_, _)
ApplyLog(table, log) ==
    IF log = << >> THEN table
    ELSE ApplyLog(ApplyStatement(table, Head(log)), Tail(log))

\* The changes in the batches of the calls at hand.
RECURSIVE TotalChanges(_)
TotalChanges(S) ==
    IF S = {} THEN 0
    ELSE LET t == CHOOSE u \in S : TRUE
         IN Len(done[t]) + TotalChanges(S \ {t})

(***************************************************************************)
(* mutation::execute_changes                                               *)
(***************************************************************************)
\* A variant of begin that hands every call the same transaction.
NewTxShared == MinOf(TxIds)

\* pool.begin(): a transaction of its own for every call.
NewTx == MinOf({x \in TxIds : txs[x].state = "free"})

\* match pool { Postgres | MySQL | SQLite => pool.begin().await.map_err(..)?,
\*              _ => return Err(Query("... not supported ...")) }
MutBegin(t, ok) ==
    /\ pc[t] = "mut_begin"
    /\ LET p == handle[t]
       IN IF Transactional(KindOf(p)) /\ ok
          THEN /\ txs' = [txs EXCEPT ![NewTx] =
                    [state |-> "open", owner |-> t, id |-> arena[p].id,
                     log |-> << >>]]
               /\ txid' = [txid EXCEPT ![t] = NewTx]
               /\ pc' = [pc EXCEPT ![t] = "mut_loop"]
               /\ UNCHANGED <<directory, pools, arena, rwWriter, rwReaders,
                              handle, ret, call, removed, lastDone, qvars,
                              svars>>
          ELSE /\ Return(t, IF Transactional(KindOf(p))
                            THEN Err("Query", "begin")
                            ELSE Err("Query",
                       "Execute changes not supported for this database type"))
               /\ UNCHANGED <<txs, txid>>
    /\ UNCHANGED <<db, outcome, done, rows_affected, errors, wrote>>

\* A PostgreSQL transaction in which a statement has failed is aborted: the
\* server refuses every later statement until the rollback.  MySQL and
\* SQLite fail the statement alone and keep the transaction usable.
Aborted(t) == KindOf(handle[t]) = "Postgres" /\ errors[t] # << >>

\* History of one change: how it ended ("ok"; "err" when its statement
\* failed; "refused" when the statement failed because the transaction was
\* aborted already; "skip" when no statement was built), the statement
\* executed, the rows it affected.
Record(c, res, stmt, rows) ==
    [type |-> c.type, res |-> res, stmt |-> stmt, rows |-> rows]

\* One turn of `for change in changes`: the statement of the change is built
\* and executed on the call's transaction, and its result is recorded.  The
\* batch is read one change at a time, as the loop reads it.
MutChange(t, c, ok) ==
    /\ pc[t] = "mut_loop"
    /\ TotalChanges(Tasks) < MaxChanges
    /\ LET x == txid[t]
           view == ApplyLog(db[txs[x].id], txs[x].log)
           s == StatementOf(c, view)
       IN IF c.type \notin StatementsOf(KindOf(handle[t]))
          THEN \* _ => continue
               /\ ok
               /\ done' = [done EXCEPT ![t] = Append(@, Record(c, "skip", "none", 0))]
               /\ UNCHANGED <<txs, rows_affected, errors>>
          ELSE IF ok
          THEN \* Ok(r) => rows_affected += r.rows_affected() as i64
               /\ CanSucceed(c, view)
               /\ ~Aborted(t)
               /\ txs' = [txs EXCEPT ![x].log = Append(@, s)]
               /\ rows_affected' = [rows_affected EXCEPT ![t] = @ + RowsOf(s, view)]
               /\ done' = [done EXCEPT ![t] =
                              Append(@, Record(c, "ok", s.type, RowsOf(s, view)))]
               /\ UNCHANGED errors
          ELSE \* Err(e) => errors.push(format!("{}: {}", change.change_type, e))
               /\ errors' = [errors EXCEPT ![t] = Append(@, c.type)]
               /\ done' = [done EXCEPT ![t] = Append(@,
                              Record(c, IF Aborted(t) THEN "refused" ELSE "err",
                                     s.type, 0))]
               /\ UNCHANGED <<txs, rows_affected>>
    /\ UNCHANGED <<directory, pools, arena, rwWriter, rwReaders, pc,
                   call, handle, ret, removed, db, txid, outcome, wrote,
                   lastDone, qvars, svars>>

\* Ok(ExecuteResult { success: errors.is_empty(), rows_affected, errors })
ExecuteResult(t) ==
    [kind |-> "Ok", success |-> errors[t] = << >>,
     rows_affected |-> rows_affected[t], errors |-> errors[t]]

\* The loop is over: if errors.is_empty() { tx.commit().await? } else
\* { tx.rollback().await? }, then the result.  A commit or rollback that
\* fails returns its error; the transaction dropped then is rolled back.
MutFinish(t, ok) ==
    /\ pc[t] = "mut_loop"
    /\ LET x == txid[t]
           id == txs[x].id
           after == ApplyLog(db[id], txs[x].log)
       IN /\ txs' = [txs EXCEPT ![x] = FreeTx]
          /\ IF errors[t] = << >> /\ ok
             THEN /\ outcome' = [outcome EXCEPT ![t] = "committed"]
                  /\ db' = [db EXCEPT ![id] = after]
                  /\ wrote' = [wrote EXCEPT ![t] = after # db[id]]
                  /\ Return(t, ExecuteResult(t))
             ELSE /\ outcome' = [outcome EXCEPT ![t] =
                        IF ok THEN "rolledback" ELSE "failed"]
                  /\ UNCHANGED <<db, wrote>>
                  /\ Return(t, IF ok THEN ExecuteResult(t)
                               ELSE Err("Query", IF errors[t] = << >>
                                                 THEN "commit" ELSE "rollback"))
    /\ UNCHANGED <<txid, done, rows_affected, errors>>

Next ==
    \/ \E t \in Tasks, id \in Ids : ConnectCreate(t, id)
    \/ \E t \in Tasks, id \in Ids : ConnectFail(t, id)
    \/ \E t \in Tasks : ConnectLock(t)
    \/ \E t \in Tasks : ConnectInsert(t)
    \/ \E t \in Tasks, id \in Ids : DisconnectCall(t, id)
    \/ \E t \in Tasks : DisconnectLock(t)
    \/ \E t \in Tasks : DisconnectRemove(t)
    \/ \E t \in Tasks : DisconnectClosed(t)
    \/ \E t \in Tasks, id \in Ids : IsConnectedCall(t, id)
    \/ \E t \in Tasks : IsConnected(t)
    \/ \E t \in Tasks, op \in Delegated, id \in Ids : DelegatedCall(t, op, id)
    \/ \E t \in Tasks, id \in Ids : LegacyCall(t, id)
    \/ \E t \in Tasks, id \in Ids : TestCall(t, id)
    \/ \E t \in Tasks, r \in TestResults : TestProbe(t, r)
    \/ \E t \in Tasks : Lookup(t)
    \/ \E t \in Tasks : QueryIO(t)
    \/ \E t \in Tasks, ok \in BOOLEAN : MutBegin(t, ok)
    \/ \E t \in Tasks, ok \in BOOLEAN : MutFinish(t, ok)

\* The registry under every call of the tasks, execute_changes being handed
\* an empty batch.  SpecMut below hands it the batches.
Spec == Init /\ [][Next]_vars

(***************************************************************************)
(* The mutation executor: concurrent callers of execute_changes, with      *)
(* batches of changes, on a registry that holds one pool, of any engine,   *)
(* under id "a".                                                           *)
(***************************************************************************)
InitMut ==
    /\ directory \in {[a |-> k, b |-> "Redis"] : k \in Kinds}
    /\ pools = [id \in Ids |-> IF id = "a" THEN 1 ELSE NoPool]
    /\ arena = [p \in PoolIds |->
                    IF p = 1 THEN [state |-> "open", id |-> "a"] ELSE FreePool]
    /\ Quiet
    /\ NoRequest
    /\ NoCommand

NextMut ==
    \/ \E t \in Tasks : DelegatedCall(t, "execute_changes", "a")
    \/ \E t \in Tasks : Lookup(t)
    \/ \E t \in Tasks, ok \in BOOLEAN : MutBegin(t, ok)
    \/ \E t \in Tasks, c \in Changes, ok \in BOOLEAN : MutChange(t, c, ok)
    \/ \E t \in Tasks, ok \in BOOLEAN : MutFinish(t, ok)

SpecMut == InitMut /\ [][NextMut]_vars

(***************************************************************************)
(* db/filters.rs: the query compiler.  SQL text is kept as the sequence of *)
(* the pieces format! puts together; Text is the string they make.         *)
(***************************************************************************)
RECURSIVE Text(_)
Text(pieces) ==
    IF pieces = << >> THEN "" ELSE Head(pieces) \o Text(Tail(pieces))

\* "\"{}\"" and "${}"
Quoted(column) == "\"" \o column \o "\""
PhUnnumbered(k) == "?"
Ph(k) == "$" \o ToString(k)

\* serde_json's to_string of a scalar, and of the elements of an array.
JsonScalarText(v) ==
    CASE v.t = "null" -> "null"
      [] v.t = "number" -> ToString(v.n)
      [] v.t = "string" -> "\"" \o v.s \o "\""
      [] OTHER -> ""

RECURSIVE JsonElementsText(_)
JsonElementsText(a) ==
    IF a = << >> THEN ""
    ELSE IF Len(a) = 1 THEN JsonScalarText(a[1])
    ELSE JsonScalarText(a[1]) \o "," \o JsonElementsText(Tail(a))

\* fn json_to_sql_value(value) -> String
json_to_sql_value(v) ==
    CASE v.t = "null" -> "NULL"
      [] v.t = "number" -> ToString(v.n)
      [] v.t = "string" -> v.s
      [] OTHER -> "[" \o JsonElementsText(v.a) \o "]"

\* val.as_str().unwrap_or("")
as_str(v) == IF v.t = "string" THEN v.s ELSE ""

\* What one turn of `for filter in &self.filters` does: `continue`, or a
\* condition and the parameters as they are after it.
SkippedDangling(params) ==
    [skip |-> FALSE, condition |-> << >>, params |-> params]
Skipped(params) == [skip |-> TRUE, condition |-> << >>, params |-> params]
Emitted(condition, params) ==
    [skip |-> FALSE, condition |-> condition, params |-> params]

\* if let Some(val) = &filter.value { params.push(param);
\* format!("\"{}\" <op> ${}", filter.column, params.len()) } else { continue }
ValueCondition(f, op, param, params) ==
    IF f.value = None THEN Skipped(params)
    ELSE Emitted(<<Quoted(f.column), op, Ph(Len(params) + 1)>>,
                 Append(params, param))

\* arr.iter().map(|v| { params.push(json_to_sql_value(v));
\* format!("${}", params.len()) }): the parameters and the placeholders.
RECURSIVE InParams(_, _)
InParams(arr, params) ==
    IF arr = << >> THEN params
    ELSE InParams(Tail(arr), Append(params, json_to_sql_value(Head(arr))))

\* placeholders.join(", "), the first placeholder being number k
RECURSIVE InPlaceholders(_, _)
InPlaceholders(n, k) ==
    IF n = 0 THEN << >>
    ELSE IF n = 1 THEN <<Ph(k)>>
    ELSE <<Ph(k), ", ">> \o InPlaceholders(n - 1, k + 1)

\* let condition = match filter.operator { .. }
FilterCondition(f, params) ==
    CASE f.operator = "Equals" ->
            ValueCondition(f, " = ", json_to_sql_value(f.value), params)
      [] f.operator = "NotEquals" ->
            ValueCondition(f, " != ", json_to_sql_value(f.value), params)
      [] f.operator = "Like" ->
            ValueCondition(f, " ILIKE ", "%" \o as_str(f.value) \o "%", params)
      [] f.operator = "IsNull" ->
            Emitted(<<Quoted(f.column), " IS NULL">>, params)
      [] f.operator = "IsNotNull" ->
            Emitted(<<Quoted(f.column), " IS NOT NULL">>, params)
      [] f.operator = "In" ->
            IF f.value.t = "array" /\ f.value.a # << >>
            THEN Emitted(<<Quoted(f.column), " IN (">>
                            \o InPlaceholders(Len(f.value.a), Len(params) + 1)
                            \o <<")">>,
                         InParams(f.value.a, params))
            ELSE Skipped(params)
      [] f.operator = "GreaterThan" ->
            ValueCondition(f, " > ", json_to_sql_value(f.value), params)
      [] f.operator = "LessThan" ->
            ValueCondition(f, " < ", json_to_sql_value(f.value), params)

\* for filter in &self.filters { ..; conditions.push(condition); }
RECURSIVE WhereLoop(_, _, _)
WhereLoop(filters, conditions, params) ==
    IF filters = << >> THEN [conditions |-> conditions, params |-> params]
    ELSE LET turn == FilterCondition(Head(filters), params)
         IN IF turn.skip
            THEN WhereLoop(Tail(filters), conditions, params)
            ELSE WhereLoop(Tail(filters), Append(conditions, turn.condition),
                           turn.params)

\* match self.filter_logic { And => " AND ", Or => " OR " }
JoinerAnd(logic) == " AND "
Joiner(logic) == IF logic = "And" THEN " AND " ELSE " OR "

\* conditions.join(joiner)
RECURSIVE Join(_, _)
Join(conditions, joiner) ==
    IF conditions = << >> THEN << >>
    ELSE IF Len(conditions) = 1 THEN conditions[1]
    ELSE conditions[1] \o <<joiner>> \o Join(Tail(conditions), joiner)

\* pub fn build_where_clause(&self) -> (String, Vec<String>)
build_where_clause(o) ==
    IF o.filters = << >> THEN [clause |-> << >>, params |-> << >>]
    ELSE LET r == WhereLoop(o.filters, << >>, << >>)
         IN IF r.conditions = << >>
            THEN [clause |-> << >>, params |-> << >>]
            ELSE [clause |-> <<" WHERE ">>
                               \o Join(r.conditions, Joiner(o.filter_logic)),
                  params |-> r.params]

\* pub fn build_cursor_clause(&self) -> Option<(String, String)>
build_cursor_clause(o) ==
    IF o.cursor.some
    THEN [some |-> TRUE,
          condition |-> <<Quoted(o.cursor.column),
                          IF o.cursor.direction = "After" THEN " > " ELSE " < ",
                          "?">>,
          param |-> json_to_sql_value(o.cursor.value)]
    ELSE [some |-> FALSE, condition |-> << >>, param |-> ""]

\* pub fn build_order_clause(&self) -> String
build_order_clause(o) ==
    IF o.cursor.some
    THEN <<" ORDER BY ", Quoted(o.cursor.column),
           IF o.cursor.direction = "After" THEN " ASC" ELSE " DESC">>
    ELSE IF o.sort.some
    THEN <<" ORDER BY ", Quoted(o.sort.column),
           IF o.sort.direction = "Asc" THEN " ASC" ELSE " DESC">>
    ELSE << >>

\* pub fn build_pagination_clause(&self) -> String
build_pagination_with_offset(o) ==
    <<" LIMIT ", ToString(o.limit), " OFFSET ", ToString(o.offset)>>
build_pagination_clause(o) ==
    IF o.cursor.some
    THEN <<" LIMIT ", ToString(o.limit)>>
    ELSE <<" LIMIT ", ToString(o.limit), " OFFSET ", ToString(o.offset)>>

\* cols.iter().map(|c| format!("\"{}\"", c)).collect().join(", ")
RECURSIVE QuotedList(_)
QuotedList(cols) ==
    IF cols = << >> THEN << >>
    ELSE IF Len(cols) = 1 THEN <<Quoted(cols[1])>>
    ELSE <<Quoted(cols[1]), ", ">> \o QuotedList(Tail(cols))

\* pub fn build_select_columns(&self) -> String
build_select_columns(o) ==
    IF o.selected_columns # << >> THEN QuotedList(o.selected_columns) ELSE <<"*">>

(***************************************************************************)
(* db/table_data.rs: fetch_table_data.                                     *)
(***************************************************************************)
\* The table the request reads, and `columns`, its schema.
TableName == "t"
SchemaColumns == <<"id", "name">>
TableRows ==
    <<[id |-> JNum(1), name |-> JNull],
      [id |-> JNum(2), name |-> JStr("s")],
      [id |-> JNum(3), name |-> JNull]>>

\* column_names: the selected columns if any, else the columns of the schema.
ColumnNames(o) ==
    IF o.selected_columns # << >> THEN o.selected_columns ELSE SchemaColumns

\* The WHERE clause of the main query: the cursor condition is appended to
\* the text build_where_clause returned.
MainWhere(o) ==
    LET where_clause == build_where_clause(o).clause
        cursor == build_cursor_clause(o)
    IN IF ~cursor.some THEN where_clause
       ELSE IF where_clause = << >> THEN <<" WHERE ">> \o cursor.condition
       ELSE where_clause \o <<" AND ">> \o cursor.condition

\* The query parts of fetch_table_data, up to the two query texts.  No
\* parameter is passed on: _params and _cursor_param are dropped.
CompileQuery(o) ==
    [kind |-> "query",
     column_names |-> ColumnNames(o),
     where_clause |-> MainWhere(o),
     order_clause |-> build_order_clause(o),
     pagination |-> build_pagination_clause(o),
     query |-> <<"SELECT ">> \o build_select_columns(o)
                  \o <<" FROM ", Quoted(TableName)>> \o MainWhere(o)
                  \o build_order_clause(o) \o build_pagination_clause(o),
     count_where |-> build_where_clause(o).clause,
     count_binds |-> << >>,
     binds |-> << >>]

(***************************************************************************)
(* The database server, as sqlx::query(&query).fetch_all(pool) meets it:   *)
(* the text is parsed, AND binding tighter than OR, and run with no        *)
(* parameter bound.                                                        *)
(***************************************************************************)
RECURSIVE SplitAcc(_, _, _, _)
SplitAcc(pieces, sep, cur, out) ==
    IF pieces = << >> THEN Append(out, cur)
    ELSE IF Head(pieces) = sep
    THEN SplitAcc(Tail(pieces), sep, << >>, Append(out, cur))
    ELSE SplitAcc(Tail(pieces), sep, Append(cur, Head(pieces)), out)

Split(pieces, sep) == SplitAcc(pieces, sep, << >>, << >>)

\* The condition after WHERE as the server reads it: a disjunction of
\* conjunctions of conditions.
Disjuncts(where_clause) ==
    IF where_clause = << >> THEN << >>
    ELSE LET ors == Split(Tail(where_clause), " OR ")
         IN [i \in DOMAIN ors |-> Split(ors[i], " AND ")]

\* Is the piece a placeholder: "?" or "$k".
IsPlaceholder(piece, n) == piece = "?" \/ \E k \in 1..n : piece = Ph(k)

\* The placeholders of a text, in the order they are written.
Placeholders(pieces) ==
    LET Test(piece) == IsPlaceholder(piece, Len(pieces))
    IN SelectSeq(pieces, Test)

ColumnOf(piece) == CHOOSE c \in Columns : Quoted(c) = piece

\* A condition on a row.  A parameter that was not bound reads as NULL, and
\* a comparison with NULL is not true.
ConditionHolds(condition, row) ==
    CASE condition[2] = " IS NULL" -> row[ColumnOf(condition[1])] = JNull
      [] condition[2] = " IS NOT NULL" -> row[ColumnOf(condition[1])] # JNull
      [] OTHER -> FALSE

RowSatisfies(where_clause, row) ==
    \/ where_clause = << >>
    \/ LET d == Disjuncts(where_clause)
       IN \E i \in DOMAIN d : \A j \in DOMAIN d[i] : ConditionHolds(d[i][j], row)

\* The statement is refused: PostgreSQL and MySQL refuse a statement whose
\* parameters are not all bound ("?" is no placeholder at all for
\* PostgreSQL); SQLite binds NULL, and has no ILIKE.  Both texts name the
\* table as "t" after FROM, which MySQL (sql_mode without ANSI_QUOTES, its
\* default) reads as a string and refuses.
Refuses(kind, pieces) ==
    CASE kind = "SQLite" -> \E i \in DOMAIN pieces : pieces[i] = " ILIKE "
      [] kind = "MySQL" -> TRUE
      [] OTHER -> Placeholders(pieces) # << >>

SortKey(v) == IF v.t = "number" THEN v.n ELSE 0

\* ORDER BY column ASC | DESC
RECURSIVE SortRows(_, _, _)
SortRows(rows, column, asc) ==
    IF rows = << >> THEN << >>
    ELSE LET Before(i, j) ==
                 \/ (asc /\ SortKey(rows[i][column]) < SortKey(rows[j][column]))
                 \/ (~asc /\ SortKey(rows[i][column]) > SortKey(rows[j][column]))
                 \/ (SortKey(rows[i][column]) = SortKey(rows[j][column]) /\ i <= j)
             first == CHOOSE i \in DOMAIN rows : \A j \in DOMAIN rows : Before(i, j)
             rest == [k \in 1..(Len(rows) - 1) |->
                         IF k < first THEN rows[k] ELSE rows[k + 1]]
         IN <<rows[first]>> \o SortRows(rest, column, asc)

Ordered(rows, order_clause) ==
    IF order_clause = << >> THEN rows
    ELSE SortRows(rows, ColumnOf(order_clause[2]), order_clause[3] = " ASC")

\* The number a piece of the text spells, up to max.
ParseInt(piece, max) == CHOOSE n \in 0..max : ToString(n) = piece

\* LIMIT n [OFFSET o], as the pagination clause spells them
Paginated(rows, pagination, max) ==
    LET limit == ParseInt(pagination[2], max)
        offset == IF Len(pagination) > 2 THEN ParseInt(pagination[4], max) ELSE 0
        last == IF offset + limit < Len(rows) THEN offset + limit ELSE Len(rows)
    IN SubSeq(rows, offset + 1, last)

Matching(where_clause) ==
    LET Test(row) == RowSatisfies(where_clause, row)
    IN SelectSeq(TableRows, Test)

(***************************************************************************)
(* fetch_table_data, from the queries to the response.                     *)
(***************************************************************************)
\* column_names.iter().position(|c| c == cursor_col)
Position(names, c) ==
    IF \E i \in DOMAIN names : names[i] = c
    THEN MinOf({i \in DOMAIN names : names[i] = c})
    ELSE 0

\* let get_next_cursor = |rows, cursor_col| { .. }
get_next_cursor(o, column_names, rows) ==
    IF o.cursor.some /\ rows # << >>
          /\ Position(column_names, o.cursor.column) \in DOMAIN column_names
    THEN rows[Len(rows)][Position(column_names, o.cursor.column)]
    ELSE None

\* rows.iter().map(|row| column_names.iter().enumerate()
\*     .map(|(i, _)| row_value_to_json(row, i)).collect()).collect()
RowData(rows, column_names) ==
    [r \in DOMAIN rows |-> [i \in DOMAIN column_names |-> rows[r][column_names[i]]]]

\* match pool { Postgres | MySQL | SQLite => { count; fetch_all; response },
\*              Redis | SQLServer | MongoDB => Err(Query(..)) }
RunQuery(kind, o, q) ==
    IF kind \notin Relational THEN Err("Query", "not supported")
    ELSE IF ~o.skip_count /\ Refuses(kind, q.count_where) THEN Err("Query", "count")
    ELSE IF Refuses(kind, q.query) THEN Err("Query", "fetch_all")
    ELSE LET page == Paginated(Ordered(Matching(q.where_clause), q.order_clause),
                               q.pagination, o.limit + o.offset)
             data == RowData(page, q.column_names)
         IN [kind |-> "Ok",
             columns |-> q.column_names,
             rows |-> data,
             total_count |-> IF o.skip_count THEN [some |-> FALSE, n |-> 0]
                             ELSE [some |-> TRUE,
                                   n |-> Len(Matching(q.count_where))],
             next_cursor |-> get_next_cursor(o, q.column_names, data)]

(***************************************************************************)
(* The requests.                                                           *)
(***************************************************************************)
\* The lists of at most n elements of S.
ListsOf(S, n) == UNION {[1..k -> S] : k \in 0..n}

\* Filters for the compiler: every operator, on a number column with no
\* value, a number, an empty list and a list of two, and on a text column
\* with no value, null and a string.
FilterSpace ==
    {[column |-> "id", operator |-> op, value |-> v] :
        op \in FilterOperators,
        v \in {None, JNum(7), JArr(<< >>), JArr(<<JNum(7), JNum(8)>>)}}
    \cup
    {[column |-> "name", operator |-> op, value |-> v] :
        op \in FilterOperators, v \in {None, JNull, JStr("s")}}

WhereOptions ==
    {[DefaultOptions EXCEPT !.filters = fs, !.filter_logic = l] :
        fs \in ListsOf(FilterSpace, MaxFilters), l \in FilterLogics}

\* build_where_clause is called on the options.
BuildWhere ==
    /\ qpc = "idle"
    /\ compiled' = [kind |-> "where"] @@ build_where_clause(options)
    /\ qpc' = "built"
    /\ UNCHANGED <<options, engine, response, returned>>
    /\ UNCHANGED <<rvars, svars>>

RegistryUnused ==
    /\ directory = [a |-> "Postgres", b |-> "Redis"]
    /\ pools = [id \in Ids |-> NoPool]
    /\ arena = [p \in PoolIds |-> FreePool]
    /\ Quiet

InitWhere ==
    /\ RegistryUnused
    /\ NoCommand
    /\ options \in WhereOptions
    /\ engine = "Postgres"
    /\ qpc = "idle"
    /\ compiled = NoCompiled
    /\ response = NoResponse
    /\ returned = << >>

NextWhere == BuildWhere

\* The WHERE compiler on every list of filters.
SpecWhere == InitWhere /\ [][NextWhere]_vars

\* Filters for the requests that are run: two that need no value, one with
\* a value, one that is skipped.
FetchFilters ==
    {[column |-> "name", operator |-> "IsNull", value |-> None],
     [column |-> "name", operator |-> "IsNotNull", value |-> None],
     [column |-> "id", operator |-> "GreaterThan", value |-> JNum(1)],
     [column |-> "id", operator |-> "Equals", value |-> None]}

FetchOptions ==
    {[filters |-> fs, filter_logic |-> l, sort |-> so, limit |-> 2,
      offset |-> off, cursor |-> cu, skip_count |-> sk,
      selected_columns |-> sel] :
        fs \in ListsOf(FetchFilters, MaxFilters),
        l \in FilterLogics,
        so \in {NoSort, SomeSort("id", "Asc"), SomeSort("id", "Desc")},
        off \in {0, 1},
        cu \in {NoCursor} \cup
                {SomeCursor("id", d, JNum(v)) : d \in {"After", "Before"},
                                               v \in {1, 2}},
        sk \in BOOLEAN,
        sel \in {<< >>, <<"name">>, <<"name", "id">>}}

\* fetch_table_data is called: the query parts and the two query texts.
FetchCompile ==
    /\ qpc = "idle"
    /\ compiled' = CompileQuery(options)
    /\ qpc' = "compiled"
    /\ UNCHANGED <<options, engine, response, returned>>
    /\ UNCHANGED <<rvars, svars>>

\* The queries are run on the pool and the response is built.
FetchRun ==
    /\ qpc = "compiled"
    /\ response' = RunQuery(engine, options, compiled)
    /\ returned' = IF response'.kind = "Ok" THEN returned \o response'.rows
                   ELSE returned
    /\ qpc' = "done"
    /\ UNCHANGED <<options, engine, compiled>>
    /\ UNCHANGED <<rvars, svars>>

InitFetch ==
    /\ RegistryUnused
    /\ NoCommand
    /\ options \in FetchOptions
    /\ engine \in Kinds
    /\ qpc = "idle"
    /\ compiled = NoCompiled
    /\ response = NoResponse
    /\ returned = << >>

NextFetch == FetchCompile \/ FetchRun

\* fetch_table_data on every request, on every engine.
SpecFetch == InitFetch /\ [][NextFetch]_vars

\* Paging forward: the first request has a cursor below every row, and each
\* next_cursor is fed back as the cursor value of the next request.
PageOptions ==
    {[filters |-> fs, filter_logic |-> l, sort |-> NoSort, limit |-> lim,
      offset |-> 0, cursor |-> SomeCursor("id", "After", JNum(0)),
      skip_count |-> sk, selected_columns |-> sel] :
        fs \in ListsOf(FetchFilters, MaxFilters),
        l \in FilterLogics,
        lim \in {1, 2},
        sk \in BOOLEAN,
        sel \in {<< >>, <<"name", "id">>}}

\* The caller asks for the page after the one it was given.
FetchNext ==
    /\ qpc = "done"
    /\ response.kind = "Ok"
    /\ response.next_cursor # None
    /\ Len(returned) < MaxReturned
    /\ options' = [options EXCEPT !.cursor.value = response.next_cursor]
    /\ qpc' = "idle"
    /\ compiled' = NoCompiled
    /\ response' = NoResponse
    /\ UNCHANGED <<engine, returned>>
    /\ UNCHANGED <<rvars, svars>>

InitPage ==
    /\ RegistryUnused
    /\ NoCommand
    /\ options \in PageOptions
    /\ engine \in Kinds
    /\ qpc = "idle"
    /\ compiled = NoCompiled
    /\ response = NoResponse
    /\ returned = << >>

NextPage == FetchCompile \/ FetchRun \/ FetchNext

\* Paging through the table on every engine.
SpecPage == InitPage /\ [][NextPage]_vars

(***************************************************************************)
(* What the claims read off a state.                                       *)
(***************************************************************************)
ExecOps == {"execute_changes", "execute_changes_legacy"}

\* The task's call has returned.
Returned(t) == pc[t] = "idle" /\ ret[t].kind # "none"

\* The task's execute_changes call ran its loop to the end and returned.
Finished(t) ==
    /\ call[t].op \in ExecOps
    /\ pc[t] = "idle"
    /\ outcome[t] # "none"

\* The call returned an ExecuteResult.
Reported(t) == Finished(t) /\ ret[t].kind = "Ok"

NotSupported ==
    Err("Query", "Execute changes not supported for this database type")

Attempted == {"ok", "err", "refused"}

\* The change types of the changes whose statement failed, in batch order.
RECURSIVE FailedTypes(_)
FailedTypes(d) ==
    IF d = << >> THEN << >>
    ELSE (IF Head(d).res \in {"err", "refused"}
          THEN <<Head(d).type>> ELSE << >>)
             \o FailedTypes(Tail(d))

\* The rows affected by the changes of a batch, summed.
RECURSIVE RowsSum(_)
RowsSum(d) == IF d = << >> THEN 0 ELSE Head(d).rows + RowsSum(Tail(d))

\* The statements that succeeded, in batch order.
RECURSIVE OkStatements(_)
OkStatements(d) ==
    IF d = << >> THEN << >>
    ELSE (IF Head(d).res = "ok" THEN <<Head(d).stmt>> ELSE << >>)
             \o OkStatements(Tail(d))

LogTypes(log) == [i \in DOMAIN log |-> log[i].type]

\* C1: execute_changes on a relational engine is atomic: a batch is either
\* committed with every one of its changes applied, or rolled back with the
\* table as it was; success:true is reported only after a commit and
\* success:false only after a rollback.
C1_BatchAtomic ==
    \A t \in Tasks :
        Finished(t) =>
            /\ outcome[t] = "committed" =>
                   \A i \in DOMAIN done[t] : done[t][i].res = "ok"
            /\ outcome[t] # "committed" => ~wrote[t]
            /\ ret[t].kind = "Ok" =>
                   /\ ret[t].success => outcome[t] = "committed"
                   /\ ~ret[t].success => outcome[t] = "rolledback"

\* C2: a failing change never stops a batch: every change after it is still
\* attempted in the same transaction, errors holds exactly one entry per
\* failed change, in batch order, prefixed with the change type; a batch of
\* 3 whose 2nd change alone fails returns one error and leaves the table.
C2_EveryFailureRecorded ==
    \A t \in Tasks :
        Finished(t) =>
            /\ \A i, j \in DOMAIN done[t] :
                   (i < j /\ done[t][i].res = "err") =>
                       done[t][j].res \in Attempted
            /\ errors[t] = FailedTypes(done[t])
            /\ ret[t].kind = "Ok" => ret[t].errors = FailedTypes(done[t])
            /\ (/\ Len(done[t]) = 3
                /\ done[t][1].res = "ok"
                /\ done[t][2].res = "err"
                /\ done[t][3].res # "err") =>
                   /\ Len(errors[t]) = 1
                   /\ ~wrote[t]

\* C3: rows_affected is counted on the committed path only: the sum of the
\* rows of every change when the batch is committed, 0 when it is rolled
\* back.
C3_RowsOnlyWhenCommitted ==
    \A t \in Tasks :
        Reported(t) =>
            /\ outcome[t] = "committed" =>
                   ret[t].rows_affected = RowsSum(done[t])
            /\ outcome[t] = "rolledback" => ret[t].rows_affected = 0

\* C4: on every relational engine each change of a batch has exactly one
\* statement built and executed, an UPDATE for "update", a DELETE for
\* "delete", an INSERT for "insert": no change is dropped.
C4_OneStatementPerChange ==
    \A t \in Tasks :
        \A i \in DOMAIN done[t] :
            /\ done[t][i].res \in Attempted
            /\ done[t][i].stmt = done[t][i].type

\* C5: two execute_changes calls running at once never share a transaction:
\* each runs in a transaction it opened itself, which holds its own
\* statements and no others, and a call that is rolled back changes nothing
\* of the committed table.
C5_OwnTransaction ==
    /\ \A t \in Tasks :
           pc[t] = "mut_loop" =>
               /\ txid[t] \in TxIds
               /\ txs[txid[t]].state = "open"
               /\ txs[txid[t]].owner = t
               /\ LogTypes(txs[txid[t]].log) = OkStatements(done[t])
    /\ \A t, u \in Tasks :
           (t # u /\ pc[t] = "mut_loop" /\ pc[u] = "mut_loop") =>
               txid[t] # txid[u]
    /\ \A t \in Tasks :
           (Finished(t) /\ outcome[t] \in {"rolledback", "failed"}) => ~wrote[t]

\* C5 witness: two calls in flight on the same id, each with a statement
\* executed in its transaction.
C5_Witness ==
    \E t, u \in Tasks :
        /\ t # u
        /\ pc[t] = "mut_loop" /\ pc[u] = "mut_loop"
        /\ call[t].id = call[u].id
        /\ txs[txid[t]].log # << >>
        /\ txs[txid[u]].log # << >>

\* C6: execute_changes on Redis, MongoDB or SQL Server is rejected up
\* front with the Query error "not supported for this database type": no
\* transaction is opened, no statement runs, no ExecuteResult is returned.
C6_NonTransactionalRejected ==
    \A t \in Tasks :
        (call[t].op \in ExecOps /\ directory[call[t].id] \notin Relational) =>
            /\ pc[t] # "mut_loop"
            /\ txid[t] = NoTx
            /\ \A x \in TxIds : txs[x].owner # t
            /\ done[t] = << >>
            /\ outcome[t] = "none"
            /\ Returned(t) => ret[t] = NotSupported

\* C6 witness: a batch against a non-transactional engine was rejected.
C6_Witness ==
    \E t \in Tasks :
        /\ call[t].op \in ExecOps
        /\ directory[call[t].id] \in {"SQLServer", "Redis", "MongoDB"}
        /\ Returned(t)
        /\ ret[t] = NotSupported

\* No connect and no disconnect is under way.
RegistryAtRest ==
    \A t \in Tasks :
        pc[t] \notin {"connect_lock", "connect_insert",
                      "disc_lock", "disc_remove", "disc_close"}

\* C7: after any interleaving of connect and disconnect calls there is
\* exactly one live pool for every connected id, the one the registry holds,
\* and none for an id that is not connected: a pool replaced by a re-connect
\* or removed by a disconnect is not live outside the registry.
C7_OneLivePoolPerConnectedId ==
    RegistryAtRest =>
        \A id \in Ids :
            {p \in PoolIds : Live(p) /\ arena[p].id = id} =
                (IF pools[id] = NoPool THEN {} ELSE {pools[id]})

\* C8: disconnect(id) removes the pool of id and closes it: once the entry
\* is removed the id is not connected, the call returns Ok, and the pool of
\* a relational engine has been closed, also when another task holds it
\* for an operation in flight; on an absent id nothing happens.
C8_DisconnectRemovesAndCloses ==
    \A t \in Tasks :
        call[t].op = "disconnect" =>
            /\ pc[t] = "disc_close" => pools[call[t].id] = NoPool
            /\ Returned(t) =>
                   /\ ret[t] = OkUnit
                   /\ directory[call[t].id] \in Relational =>
                          removed[t] \in {"absent", "closed"}

\* C9: a lookup or delegated call holds the read lock of the registry only
\* while it clones the pool handle: no call holds it once its database I/O
\* has started, so no connect or disconnect waits for an operation in
\* flight.
C9_ReadGuardReleasedBeforeIO ==
    \A t \in Tasks :
        pc[t] \in {"op_io", "mut_begin", "mut_loop"} => t \notin rwReaders

\* C10: connect and disconnect hold the write lock of the registry for the
\* map mutation only: not while a pool is created, not while one is closed.
C10_WriteGuardOnlyForMapMutation ==
    \A t \in Tasks :
        rwWriter = t => pc[t] \in {"connect_insert", "disc_remove"}

\* The step is one of task t's call.
StepOf(t) == pc'[t] # pc[t]

\* C11: every delegated operation called with an id the registry does not
\* hold fails with an error of kind Connection, runs no database I/O and
\* leaves the registry as it was.
C11_UnknownIdIsConnectionError ==
    [][\A t \in Tasks :
          (call[t].op \in Delegated /\ pc[t] = "get_pool" /\ pc'[t] = "idle") =>
              /\ ret'[t].kind = "Err"
              /\ ret'[t].variant = "Connection"
              /\ pools' = pools /\ arena' = arena
              /\ db' = db /\ txs' = txs]_vars

\* C12: test_connection never touches the registry: whatever the engine and
\* the outcome, no step of the call changes the registered ids, the pool
\* under any id or the pools themselves, so is_connected of the tested id
\* is as before.
C12_TestConnectionLeavesRegistry ==
    [][\A t \in Tasks :
          (StepOf(t) /\ "test_io" \in {pc[t], pc'[t]}) =>
              /\ pools' = pools
              /\ arena' = arena
              /\ rwWriter' = rwWriter /\ rwReaders' = rwReaders]_vars

\* C12 witness: test_connection has returned, with each of its outcomes, for
\* an id that is connected and for one that is not.
C12_Witness ==
    \E t, u \in Tasks :
        /\ call[t].op = "test_connection" /\ Returned(t)
        /\ call[u].op = "test_connection" /\ Returned(u)
        /\ ret[t] = OkUnit /\ ret[u].kind = "Err"
        /\ pools[call[t].id] # NoPool
        /\ pools[call[u].id] = NoPool

(***************************************************************************)
(* The commands that run raw SQL and DDL (commands/database.rs): each is   *)
(* one handler, run whole; what the server answers to a statement it is    *)
(* sent is not the program's and is either answer.                         *)
(***************************************************************************)
\* The registry of the commands: a is connected, on any engine; b is not.
OneConnected ==
    /\ directory \in {[a |-> k, b |-> "Redis"] : k \in Kinds}
    /\ pools = [id \in Ids |-> IF id = "a" THEN 1 ELSE NoPool]
    /\ arena = [p \in PoolIds |->
                    IF p = 1 THEN [state |-> "open", id |-> "a"] ELSE FreePool]
    /\ Quiet
    /\ NoRequest

\* Raw SQL: blanks, the first word, the rest.
FirstWords ==
    {"CREATE", "create", "DROP", "Drop", "ALTER", "TRUNCATE", "SELECT", "INSERT"}
SqlTexts == {<<lead, w, " x">> : lead \in {"", "  "}, w \in FirstWords}

\* str::trim, on the pieces
Blank(piece) == piece \in {"", "  "}
RECURSIVE TrimStart(_)
TrimStart(pieces) ==
    IF pieces # << >> /\ Blank(Head(pieces)) THEN TrimStart(Tail(pieces))
    ELSE pieces
RECURSIVE TrimEnd(_)
TrimEnd(pieces) ==
    IF pieces # << >> /\ Blank(pieces[Len(pieces)])
    THEN TrimEnd(SubSeq(pieces, 1, Len(pieces) - 1))
    ELSE pieces
Trim(pieces) == TrimEnd(TrimStart(pieces))

\* str::to_uppercase, on a piece and on the pieces
UpperPiece(piece) ==
    CASE piece = "create" -> "CREATE"
      [] piece = "Drop" -> "DROP"
      [] piece = " x" -> " X"
      [] OTHER -> piece
to_uppercase(pieces) == [i \in DOMAIN pieces |-> UpperPiece(pieces[i])]

\* str::starts_with, the prefix being a whole first word
starts_with(pieces, prefix) == pieces # << >> /\ pieces[1] = prefix

\* sql_upper.starts_with("CREATE") || .. "DROP" || .. "ALTER" || .. "TRUNCATE"
is_schema_change(sql) ==
    LET sql_upper == to_uppercase(Trim(sql))
    IN \/ starts_with(sql_upper, "CREATE")
       \/ starts_with(sql_upper, "DROP")
       \/ starts_with(sql_upper, "ALTER")
       \/ starts_with(sql_upper, "TRUNCATE")

\* The commands that run SQL a caller wrote.
SqlCommands ==
    {[op |-> op, id |-> id, sql |-> sql] :
        op \in {"execute_query", "execute_sql_safe", "execute_ddl"},
        id \in Ids, sql \in SqlTexts}

SchemaChanged(id) == [event |-> "database:schema-changed", payload |-> id]

\* pool_manager.execute_query(id, sql): the pool is looked up; a sqlx pool
\* runs the statement, any other pool refuses.
ManagerExecuteQuery(id, ok) ==
    IF pools[id] = NoPool THEN Err("Connection", "Not connected")
    ELSE IF KindOf(pools[id]) \notin Relational
    THEN Err("Query", "not supported")
    ELSE IF ok THEN OkUnit ELSE Err("Query", "statement")

\* Does the statement get to the server.
Sent(id) == pools[id] # NoPool /\ KindOf(pools[id]) \in Relational

\* #[tauri::command] execute_query: the result of the manager, as it is.
ExecuteQueryCommand(ok) ==
    /\ cpc = "idle"
    /\ command.op = "execute_query"
    /\ result' = ManagerExecuteQuery(command.id, ok)
    /\ issued' = IF Sent(command.id) THEN <<command.sql>> ELSE << >>
    /\ cpc' = "done"
    /\ UNCHANGED <<command, events, catalog>>
    /\ UNCHANGED <<rvars, qvars>>

\* #[tauri::command] execute_sql_safe: the event after a schema change that
\* succeeded; the command itself never fails.
ExecuteSqlSafe(ok) ==
    /\ cpc = "idle"
    /\ command.op = "execute_sql_safe"
    /\ LET r == ManagerExecuteQuery(command.id, ok)
       IN /\ events' = IF r.kind = "Ok" /\ is_schema_change(command.sql)
                        THEN Append(events, SchemaChanged(command.id))
                        ELSE events
          /\ result' = [kind |-> "Ok", success |-> r.kind = "Ok"]
    /\ issued' = IF Sent(command.id) THEN <<command.sql>> ELSE << >>
    /\ cpc' = "done"
    /\ UNCHANGED <<command, catalog>>
    /\ UNCHANGED <<rvars, qvars>>

\* schema_ops::execute_ddl(pool, sql)
execute_ddl(kind, ok) ==
    IF kind \notin Relational THEN Err("Query", "Unsupported database type")
    ELSE IF ok THEN OkUnit ELSE Err("Query", "statement")

\* #[tauri::command] execute_ddl: the event after any statement that
\* succeeded.
ExecuteDdlCommand(ok) ==
    /\ cpc = "idle"
    /\ command.op = "execute_ddl"
    /\ LET r == IF pools[command.id] = NoPool
                THEN Err("Connection", "Not connected")
                ELSE execute_ddl(KindOf(pools[command.id]), ok)
       IN /\ events' = IF r.kind = "Ok"
                        THEN Append(events, SchemaChanged(command.id))
                        ELSE events
          /\ result' = r
    /\ issued' = IF Sent(command.id) THEN <<command.sql>> ELSE << >>
    /\ cpc' = "done"
    /\ UNCHANGED <<command, catalog>>
    /\ UNCHANGED <<rvars, qvars>>

InitNotify ==
    /\ OneConnected
    /\ command \in SqlCommands
    /\ cpc = "idle"
    /\ result = [kind |-> "none"]
    /\ issued = << >>
    /\ events = << >>
    /\ catalog = << >>

NextNotify ==
    \/ \E ok \in BOOLEAN : ExecuteQueryCommand(ok)
    \/ \E ok \in BOOLEAN : ExecuteSqlSafe(ok)
    \/ \E ok \in BOOLEAN : ExecuteDdlCommand(ok)

\* The SQL commands on every statement, connected or not.
SpecNotify == InitNotify /\ [][NextNotify]_vars

(***************************************************************************)
(* The schema lists: list_views, list_functions, get_table_foreign_keys    *)
(* (pool/metadata.rs) and get_table_indexes (schema_ops.rs), on a pool.    *)
(***************************************************************************)
SchemaLists ==
    {"list_views", "list_functions", "get_table_foreign_keys",
     "get_table_indexes"}

\* The names a list or a table argument may have.
TableNames == {"users", "user_roles", "products"}

\* An Ok with a value.
OkOf(value) == [kind |-> "Ok", value |-> value]

\* The pool variants that have an arm with a query; `_ => Ok(vec![])` is the
\* arm of the others.
QueriedByAll(op) == Kinds
QueriedBy(op) ==
    IF op = "list_functions" THEN {"Postgres", "MySQL"} ELSE Relational

\* What the server may answer to the catalog query of a list.
CatalogAnswers ==
    {Err("Query", "catalog"), OkOf(<< >>), OkOf(<<"x">>), OkOf(<<"x", "y">>)}

SchemaListCommands ==
    {[op |-> op, id |-> "a", table_name |-> tn] :
        op \in SchemaLists, tn \in TableNames}

\* match pool { <sqlx pools> => query .. fetch_all .. map_err?; Ok(rows),
\*              _ => Ok(vec![]) }
ListSchema(answer) ==
    /\ cpc = "idle"
    /\ command.op \in SchemaLists
    /\ LET kind == KindOf(pools[command.id])
       IN IF kind \in QueriedBy(command.op)
          THEN /\ issued' = <<<<command.op, command.table_name>>>>
               /\ result' = answer
          ELSE /\ issued' = << >>
               /\ result' = OkOf(<< >>)
    /\ cpc' = "done"
    /\ UNCHANGED <<command, events, catalog>>
    /\ UNCHANGED <<rvars, qvars>>

InitSchema ==
    /\ OneConnected
    /\ command \in SchemaListCommands
    /\ cpc = "idle"
    /\ result = [kind |-> "none"]
    /\ issued = << >>
    /\ events = << >>
    /\ catalog = << >>

NextSchema == \E answer \in CatalogAnswers : ListSchema(answer)

\* The schema lists on every engine.
SpecSchema == InitSchema /\ [][NextSchema]_vars

(***************************************************************************)
(* DDL generation (schema_ops.rs).  A text is the sequence of its pieces,  *)
(* as for the queries; "\n" between two statements is a piece.             *)
(***************************************************************************)
\* A piece occurs in a text.
Has(statement, piece) == \E i \in DOMAIN statement : statement[i] = piece

\* Option<String>, for ColumnDefinition.default_value
NoDefault == [some |-> FALSE, value |-> ""]
SomeDefault(v) == [some |-> TRUE, value |-> v]

\* ColumnDefinition
ColumnDefinition(name, data_type, nullable, default_value, auto) ==
    [name |-> name, data_type |-> data_type, nullable |-> nullable,
     default_value |-> default_value, is_auto_increment |-> auto]

\* "\"{}\" {}" [" NOT NULL"] [" DEFAULT {}"]
ColumnDef(col) ==
    <<Quoted(col.name), " ", col.data_type>>
        \o (IF ~col.nullable THEN <<" NOT NULL">> ELSE << >>)
        \o (IF col.default_value.some
            THEN <<" DEFAULT ", col.default_value.value>> ELSE << >>)

\* statements.join("\n")
RECURSIVE JoinLines(_)
JoinLines(statements) ==
    IF statements = << >> THEN << >>
    ELSE IF Len(statements) = 1 THEN statements[1]
    ELSE statements[1] \o <<"\n">> \o JoinLines(Tail(statements))

\* if new_column.nullable { "DROP NOT NULL" } else { "SET NOT NULL" }
null_action(nullable) == IF nullable THEN "DROP NOT NULL" ELSE "SET NOT NULL"

\* The three statements of the Postgres arm.
RenameStatement(table_name, old_name, col) ==
    <<"ALTER TABLE ", Quoted(table_name), " RENAME COLUMN ", Quoted(old_name),
      " TO ", Quoted(col.name), ";">>
TypeStatement(table_name, col) ==
    <<"ALTER TABLE ", Quoted(table_name), " ALTER COLUMN ", Quoted(col.name),
      " TYPE ", col.data_type, ";">>
NullStatement(table_name, col) ==
    <<"ALTER TABLE ", Quoted(table_name), " ALTER COLUMN ", Quoted(col.name),
      " ", null_action(col.nullable), ";">>

\* DatabasePool::Postgres(_) => { .. Ok(statements.join("\n")) }
PostgresModifyTypeLast(table_name, old_name, col) ==
    (IF old_name # col.name
     THEN <<RenameStatement(table_name, old_name, col)>> ELSE << >>)
        \o <<NullStatement(table_name, col), TypeStatement(table_name, col)>>
PostgresModify(table_name, old_name, col) ==
    (IF old_name # col.name
     THEN <<RenameStatement(table_name, old_name, col)>> ELSE << >>)
        \o <<TypeStatement(table_name, col), NullStatement(table_name, col)>>

\* pub fn generate_modify_column_sql(pool, table_name, old_name, new_column)
generate_modify_column_sql(kind, table_name, old_name, col) ==
    CASE kind = "Postgres" ->
            [kind |-> "Ok",
             value |-> JoinLines(PostgresModify(table_name, old_name, col))]
      [] kind = "MySQL" ->
            [kind |-> "Ok",
             value |-> <<"ALTER TABLE ", Quoted(table_name), " CHANGE COLUMN ",
                         Quoted(old_name), " ">> \o ColumnDef(col) \o <<";">>]
      [] kind = "SQLite" ->
            Err("Query",
                "SQLite does not support modifying columns. Recreate the table.")
      [] OTHER -> Err("Query", "Unsupported database type")

ColumnNamesOfModel == {"c", "d"}
DataTypes == {"integer", "text"}
Defaults == {NoDefault, SomeDefault("0")}

ModifyCommands ==
    {[op |-> "generate_modify_column_sql", id |-> "a", table_name |-> "t",
      old_name |-> old,
      new_column |-> ColumnDefinition(n, ty, nl, d, FALSE)] :
        old \in ColumnNamesOfModel, n \in ColumnNamesOfModel,
        ty \in DataTypes, nl \in BOOLEAN, d \in Defaults}

\* generate_modify_column_sql is called on the pool of the connection.
GenerateModify ==
    /\ cpc = "idle"
    /\ command.op = "generate_modify_column_sql"
    /\ result' = generate_modify_column_sql(KindOf(pools[command.id]),
                                            command.table_name,
                                            command.old_name,
                                            command.new_column)
    /\ cpc' = "done"
    /\ UNCHANGED <<command, issued, events, catalog>>
    /\ UNCHANGED <<rvars, qvars>>

InitModify ==
    /\ OneConnected
    /\ command \in ModifyCommands
    /\ cpc = "idle"
    /\ result = [kind |-> "none"]
    /\ issued = << >>
    /\ events = << >>
    /\ catalog = << >>

NextModify == GenerateModify

\* generate_modify_column_sql on every column change, on every engine.
SpecModify == InitModify /\ [][NextModify]_vars

(***************************************************************************)
(* CREATE TABLE: the text generate_create_table_sql renders, the table the *)
(* server makes of it when execute_ddl sends it to a fresh database, and   *)
(* what get_table_schema reads back.                                       *)
(***************************************************************************)
\* Option<Vec<String>>, for CreateTableRequest.primary_key
NoKey == [some |-> FALSE, cols |-> << >>]
SomeKey(cols) == [some |-> TRUE, cols |-> cols]

\* for col in &request.columns { let mut def = ..; if col.is_auto_increment
\* { match pool { .. } } column_defs.push(def) }
AutoIncrement(kind, col) ==
    IF col.is_auto_increment
    THEN CASE kind = "Postgres" ->
                  <<Quoted(col.name), " SERIAL">>
                      \o (IF ~col.nullable THEN <<" NOT NULL">> ELSE << >>)
           [] kind = "MySQL" -> ColumnDef(col) \o <<" AUTO_INCREMENT">>
           [] kind = "SQLite" ->
                  <<Quoted(col.name), " INTEGER PRIMARY KEY AUTOINCREMENT">>
           [] OTHER -> ColumnDef(col)
    ELSE ColumnDef(col)

\* format!("PRIMARY KEY ({})", pk_str)
PrimaryKeyDef(pk_cols) ==
    <<"PRIMARY KEY (">>
        \o Join([i \in DOMAIN pk_cols |-> <<Quoted(pk_cols[i])>>], ", ")
        \o <<")">>

\* pub fn generate_create_table_sql(pool, request)
generate_create_table_sql(kind, request) ==
    LET column_defs ==
            [i \in DOMAIN request.columns |->
                AutoIncrement(kind, request.columns[i])]
                \o (IF request.primary_key.some
                       /\ request.primary_key.cols # << >>
                    THEN <<PrimaryKeyDef(request.primary_key.cols)>>
                    ELSE << >>)
    IN OkOf(<<"CREATE TABLE ", Quoted(request.name), " (\n  ">>
                \o Join(column_defs, ",\n  ") \o <<"\n);">>)

\* The names of the requests.
CreateNames == {"t", "id", "name"}
NameOfPiece(piece) == CHOOSE n \in CreateNames : Quoted(n) = piece

\* The server reads the text: the definitions between the parentheses, and
\* the columns of a PRIMARY KEY (..) definition.
DefinitionsOf(text) == Split(SubSeq(text, 4, Len(text) - 1), ",\n  ")
IsKeyDef(def) == def[1] = "PRIMARY KEY ("
KeyOf(defs) ==
    LET keys == SelectSeq(defs, IsKeyDef)
    IN IF keys = << >> THEN << >>
       ELSE LET names == SelectSeq(SubSeq(keys[1], 2, Len(keys[1]) - 1),
                                   LAMBDA pc0 : pc0 # ", ")
            IN [i \in DOMAIN names |-> NameOfPiece(names[i])]
PositionIn(key, name) ==
    IF \E i \in DOMAIN key : key[i] = name
    THEN CHOOSE i \in DOMAIN key : key[i] = name
    ELSE 0

\* The column the server stores for a definition.  PostgreSQL: SERIAL is an
\* integer column that is NOT NULL, and a primary-key column is NOT NULL;
\* SQLite: the declared type as written, NOT NULL only where written, and
\* INTEGER PRIMARY KEY AUTOINCREMENT is the key.
StoredColumn(kind, def, key) ==
    LET name == NameOfPiece(def[1])
        pos == PositionIn(key, name)
    IN CASE def[2] = " SERIAL" ->
                [name |-> name, data_type |-> "integer", notnull |-> TRUE,
                 pk |-> pos]
         [] def[2] = " INTEGER PRIMARY KEY AUTOINCREMENT" ->
                [name |-> name, data_type |-> "INTEGER", notnull |-> FALSE,
                 pk |-> 1]
         [] OTHER ->
                [name |-> name, data_type |-> def[3],
                 notnull |-> Has(def, " NOT NULL")
                                 \/ (kind = "Postgres" /\ pos # 0),
                 pk |-> pos]

\* The server refuses the text: MySQL (sql_mode without ANSI_QUOTES, its
\* default) reads "t" as a string; SQLite refuses a second primary key.
RefusesCreate(kind, text) ==
    LET defs == DefinitionsOf(text)
        keys == {i \in DOMAIN defs :
                    \/ IsKeyDef(defs[i])
                    \/ Has(defs[i], " INTEGER PRIMARY KEY AUTOINCREMENT")}
    IN CASE kind = "MySQL" -> TRUE
         [] kind = "SQLite" -> Cardinality(keys) > 1
         [] OTHER -> FALSE

\* The table of a fresh database after the statement.
CreatedTable(kind, text) ==
    LET defs == DefinitionsOf(text)
        key == KeyOf(defs)
        cols == SelectSeq(defs, LAMBDA d : ~IsKeyDef(d))
    IN [name |-> NameOfPiece(text[2]),
        columns |-> [i \in DOMAIN cols |-> StoredColumn(kind, cols[i], key)]]

\* ColumnInfo
ColumnInfo(name, data_type, nullable, max_length, is_primary_key) ==
    [name |-> name, data_type |-> data_type, nullable |-> nullable,
     max_length |-> max_length, is_primary_key |-> is_primary_key]

\* pub async fn get_table_schema(pool, table_name); no column of the model
\* has a character length.
get_table_schema(kind, tables, table_name) ==
    LET found == SelectSeq(tables, LAMBDA t : t.name = table_name)
        cols == IF found = << >> THEN << >> ELSE found[1].columns
    IN CASE kind \in {"Postgres", "MySQL"} ->
                OkOf([i \in DOMAIN cols |->
                        ColumnInfo(cols[i].name, cols[i].data_type,
                                   ~cols[i].notnull, "None", FALSE)])
         [] kind = "SQLite" ->
                OkOf([i \in DOMAIN cols |->
                        ColumnInfo(cols[i].name, cols[i].data_type,
                                   ~cols[i].notnull, "None", cols[i].pk = 1)])
         [] kind = "SQLServer" -> OkOf(<< >>)
         [] kind = "Redis" ->
                OkOf(<<ColumnInfo("value", "string", TRUE, "None", FALSE)>>)
         [] kind = "MongoDB" ->
                OkOf(<<ColumnInfo("_id", "ObjectId", FALSE, "None", TRUE)>>)

\* The requests: a table t of one or two columns, id and then name, with
\* no key, an empty key, or a key of its columns.
IdColumns ==
    {ColumnDefinition("id", "integer", nl, NoDefault, auto) :
        nl \in BOOLEAN, auto \in BOOLEAN}
NameColumns ==
    {ColumnDefinition("name", ty, nl, d, FALSE) :
        ty \in DataTypes, nl \in BOOLEAN, d \in Defaults}
CreateTableRequests ==
    {[name |-> "t", columns |-> cols, primary_key |-> key] :
        cols \in {<<c>> : c \in IdColumns}
                    \cup {<<c, d>> : c \in IdColumns, d \in NameColumns},
        key \in {NoKey, SomeKey(<< >>), SomeKey(<<"id">>)}}
CreateCommands ==
    {[op |-> "create_table", id |-> "a", request |-> r] :
        r \in CreateTableRequests}

\* generate_create_table_sql on the pool of the connection
GenerateCreate ==
    /\ cpc = "idle"
    /\ command.op = "create_table"
    /\ result' = generate_create_table_sql(KindOf(pools[command.id]),
                                           command.request)
    /\ cpc' = "generated"
    /\ UNCHANGED <<command, issued, events, catalog>>
    /\ UNCHANGED <<rvars, qvars>>

\* execute_ddl of the generated text, on a fresh database
ExecuteCreate ==
    /\ cpc = "generated"
    /\ result.kind = "Ok"
    /\ LET kind == KindOf(pools[command.id])
           r == execute_ddl(kind, ~RefusesCreate(kind, result.value))
       IN /\ result' = r
          /\ issued' = IF kind \in Relational THEN <<result.value>> ELSE << >>
          /\ catalog' = IF r.kind = "Ok"
                         THEN <<CreatedTable(kind, result.value)>>
                         ELSE catalog
    /\ cpc' = "executed"
    /\ UNCHANGED <<command, events>>
    /\ UNCHANGED <<rvars, qvars>>

\* get_table_schema of the table of the request
GetTableSchema ==
    /\ cpc = "executed"
    /\ result' = get_table_schema(KindOf(pools[command.id]), catalog,
                                  command.request.name)
    /\ cpc' = "done"
    /\ UNCHANGED <<command, issued, events, catalog>>
    /\ UNCHANGED <<rvars, qvars>>

InitCreate ==
    /\ OneConnected
    /\ command \in CreateCommands
    /\ cpc = "idle"
    /\ result = [kind |-> "none"]
    /\ issued = << >>
    /\ events = << >>
    /\ catalog = << >>

NextCreate == GenerateCreate \/ ExecuteCreate \/ GetTableSchema

\* A table created from a request and read back, on every engine.
SpecCreate == InitCreate /\ [][NextCreate]_vars

(***************************************************************************)
(* list_tables (pool/metadata.rs).  A name or a search is a string; its    *)
(* characters are needed to compare, to order and to match a pattern.      *)
(***************************************************************************)
Chars(str) ==
    CASE str = "users" -> <<"u", "s", "e", "r", "s">>
      [] str = "user_roles" ->
             <<"u", "s", "e", "r", "_", "r", "o", "l", "e", "s">>
      [] str = "products" -> <<"p", "r", "o", "d", "u", "c", "t", "s">>
      [] str = "user" -> <<"u", "s", "e", "r">>
      [] str = "USER" -> <<"U", "S", "E", "R">>
      [] str = "user_" -> <<"u", "s", "e", "r", "_">>
      [] str = "prod" -> <<"p", "r", "o", "d">>
      [] str = "zzz" -> <<"z", "z", "z">>
      [] str = "sqlite_%" -> <<"s", "q", "l", "i", "t", "e", "_", "%">>

\* The characters in the order of their bytes.
ByteOrder ==
    <<"E", "R", "S", "U", "_", "c", "d", "e", "l", "o", "p", "r", "s", "t",
      "u", "z">>
Byte(c) == CHOOSE i \in DOMAIN ByteOrder : ByteOrder[i] = c

\* char::to_lowercase, str::to_lowercase
LowerChar(c) ==
    CASE c = "E" -> "e"
      [] c = "R" -> "r"
      [] c = "S" -> "s"
      [] c = "U" -> "u"
      [] OTHER -> c
to_lowercase(chars) == [i \in DOMAIN chars |-> LowerChar(chars[i])]

\* str::contains
contains(hay, needle) ==
    \E i \in 1..(Len(hay) + 1) :
        /\ i + Len(needle) - 1 <= Len(hay)
        /\ SubSeq(hay, i, i + Len(needle) - 1) = needle

\* Ord for String: byte by byte, a prefix first
RECURSIVE StrLess(_, _)
StrLess(a, b) ==
    IF b = << >> THEN FALSE
    ELSE IF a = << >> THEN TRUE
    ELSE IF Head(a) = Head(b) THEN StrLess(Tail(a), Tail(b))
    ELSE Byte(Head(a)) < Byte(Head(b))

\* Vec::sort, and ORDER BY of the servers, on names that are all different
SortedNames(names) ==
    LET S == {names[i] : i \in DOMAIN names}
    IN CHOOSE sorted \in [1..Cardinality(S) -> S] :
          \A i, j \in DOMAIN sorted :
              i < j => StrLess(Chars(sorted[i]), Chars(sorted[j]))

\* LIKE of the servers, as list_tables meets it (ILIKE of PostgreSQL, LIKE
\* of SQLite on ASCII, LIKE of MySQL under its default collation): letters
\* compare without case, % is any run of characters, _ is any one.
RECURSIVE Like(_, _)
Like(text, pattern) ==
    IF pattern = << >> THEN text = << >>
    ELSE IF Head(pattern) = "%"
    THEN \E k \in 0..Len(text) :
            Like(SubSeq(text, k + 1, Len(text)), Tail(pattern))
    ELSE /\ text # << >>
         /\ \/ Head(pattern) = "_"
            \/ LowerChar(Head(pattern)) = LowerChar(Head(text))
         /\ Like(Tail(text), Tail(pattern))

\* Option<u32>, Option<String>
NoArg == [some |-> FALSE, value |-> 0]
SomeArg(v) == [some |-> TRUE, value |-> v]

\* s.replace("'", "''"): no search of the model holds a quote
replace_quote(str) == str

\* if let Some(l) = limit { push " LIMIT {}" }
\* if let Some(o) = offset { push " OFFSET {}" }
LimitOffset(limit, offset) ==
    (IF limit.some THEN <<" LIMIT ", ToString(limit.value)>> ELSE << >>)
        \o (IF offset.some THEN <<" OFFSET ", ToString(offset.value)>>
            ELSE << >>)

\* The text list_tables sends, for the engines with a catalog query.
ListTablesQuery(kind, limit, offset, search) ==
    CASE kind = "Postgres" ->
            <<"SELECT tablename FROM pg_tables WHERE schemaname = 'public'">>
                \o (IF search.some
                    THEN <<" AND tablename ILIKE '%",
                           replace_quote(search.value), "%'">>
                    ELSE << >>)
                \o <<" ORDER BY tablename">>
                \o LimitOffset(limit, offset)
      [] kind = "MySQL" ->
            (IF search.some
             THEN <<"SHOW TABLES LIKE '%", replace_quote(search.value), "%'">>
             ELSE <<"SHOW TABLES">>)
                \o LimitOffset(limit, offset)
      [] kind = "SQLite" ->
            <<"SELECT name FROM sqlite_master WHERE type='table' AND name NOT LIKE 'sqlite_%'">>
                \o (IF search.some
                    THEN <<" AND name LIKE '%", replace_quote(search.value),
                           "%'">>
                    ELSE << >>)
                \o <<" ORDER BY name">>
                \o LimitOffset(limit, offset)

\* keys[start..end].to_vec(), with start >= keys.len() => vec![]
Slice(names, limit, offset) ==
    LET start == IF offset.some THEN offset.value ELSE 0
        end == IF limit.some
               THEN IF start + limit.value < Len(names)
                    THEN start + limit.value ELSE Len(names)
               ELSE Len(names)
    IN IF start >= Len(names) THEN << >> ELSE SubSeq(names, start + 1, end)

\* The server reads the text.
PieceAfter(text, piece) ==
    text[(CHOOSE i \in DOMAIN text : text[i] = piece) + 1]
MaxNumber == 3
NumberOfPiece(piece) == CHOOSE n \in 0..MaxNumber : ToString(n) = piece
ArgAfter(text, piece) ==
    IF Has(text, piece) THEN SomeArg(NumberOfPiece(PieceAfter(text, piece)))
    ELSE NoArg
PatternOf(text) ==
    LET opener == CHOOSE o \in {" AND tablename ILIKE '%", " AND name LIKE '%",
                                "SHOW TABLES LIKE '%"} : Has(text, o)
    IN <<"%">> \o Chars(PieceAfter(text, opener)) \o <<"%">>
HasPattern(text) ==
    \E o \in {" AND tablename ILIKE '%", " AND name LIKE '%",
               "SHOW TABLES LIKE '%"} : Has(text, o)

\* The server refuses the text: SHOW TABLES of MySQL takes no LIMIT and no
\* OFFSET; SQLite takes OFFSET only after LIMIT.
RefusesList(kind, text) ==
    CASE kind = "MySQL" -> Has(text, " LIMIT ") \/ Has(text, " OFFSET ")
      [] kind = "SQLite" -> Has(text, " OFFSET ") /\ ~Has(text, " LIMIT ")
      [] OTHER -> FALSE

\* The rows the server answers with: the names the pattern matches, in
\* the order of the names, from the offset and up to the limit.
ListedRows(kind, text, tables) ==
    LET listed == SelectSeq(tables, LAMBDA n :
                      /\ kind = "SQLite" => ~Like(Chars(n), Chars("sqlite_%"))
                      /\ HasPattern(text) => Like(Chars(n), PatternOf(text)))
    IN Slice(SortedNames(listed), ArgAfter(text, " LIMIT "),
             ArgAfter(text, " OFFSET "))

\* pub async fn list_tables(pool, limit, offset, search)
list_tables(kind, tables, limit, offset, search) ==
    CASE kind \in Relational ->
            LET query == ListTablesQuery(kind, limit, offset, search)
            IN IF RefusesList(kind, query) THEN Err("Query", "syntax error")
               ELSE OkOf(ListedRows(kind, query, tables))
      [] kind = "SQLServer" -> OkOf(<< >>)
      [] OTHER ->
            LET kept == IF search.some
                        THEN SelectSeq(tables, LAMBDA n :
                                 contains(to_lowercase(Chars(n)),
                                          to_lowercase(Chars(search.value))))
                        ELSE tables
            IN OkOf(Slice(SortedNames(kept), limit, offset))

Searches == {"user", "USER", "user_", "prod", "zzz"}
Schemas ==
    {<<"users", "user_roles", "products">>, <<"products", "users">>, << >>}
ListTablesCommands ==
    {[op |-> "list_tables", id |-> "a", limit |-> l, offset |-> o,
      search |-> q] :
        l \in {NoArg, SomeArg(1), SomeArg(2)},
        o \in {NoArg, SomeArg(0), SomeArg(1), SomeArg(3)},
        q \in {NoArg} \cup {SomeArg(w) : w \in Searches}}

\* list_tables on the pool of the connection
ListTables ==
    /\ cpc = "idle"
    /\ command.op = "list_tables"
    /\ LET kind == KindOf(pools[command.id])
       IN /\ result' = list_tables(kind, catalog, command.limit,
                                   command.offset, command.search)
          /\ issued' = IF kind \in Relational
                        THEN <<ListTablesQuery(kind, command.limit,
                                               command.offset, command.search)>>
                        ELSE << >>
    /\ cpc' = "done"
    /\ UNCHANGED <<command, events, catalog>>
    /\ UNCHANGED <<rvars, qvars>>

InitTables ==
    /\ OneConnected
    /\ command \in ListTablesCommands
    /\ cpc = "idle"
    /\ result = [kind |-> "none"]
    /\ issued = << >>
    /\ events = << >>
    /\ catalog \in Schemas

NextTables == ListTables

\* list_tables with every search and page, on every engine.
SpecTables == InitTables /\ [][NextTables]_vars

(***************************************************************************)
(* The claims on the query compiler and on fetch_table_data.               *)
(***************************************************************************)
\* The request has been compiled; it has been run and has returned rows.
Compiled == qpc \in {"compiled", "done"}
Answered == qpc = "done" /\ response.kind = "Ok"

\* The conditions of the filters that are not skipped, as compiled.
FilterConditions(o) == WhereLoop(o.filters, << >>, << >>).conditions

\* The value of a WHERE clause as SQL reads it, AND before OR, when each
\* condition has the truth value `truth` gives it.
SqlValue(where_clause, truth) ==
    LET d == Disjuncts(where_clause)
    IN \E i \in DOMAIN d : \A j \in DOMAIN d[i] : truth[d[i][j]]

\* The value of the filter conditions joined per filter_logic.
FiltersValue(o, truth) ==
    LET F == FilterConditions(o)
    IN IF F = << >> THEN TRUE
       ELSE IF o.filter_logic = "And" THEN \A i \in DOMAIN F : truth[F[i]]
       ELSE \E i \in DOMAIN F : truth[F[i]]

\* C13: with a cursor, the WHERE condition of the main query is equivalent
\* to (the filter conditions joined per filter_logic) AND (the cursor
\* condition), whatever filter_logic is: under no truth values of the
\* conditions is the WHERE condition true and the cursor condition false.
C13_CursorAndedWithFilters ==
    (Compiled /\ options.cursor.some) =>
        LET F == FilterConditions(options)
            cursor == build_cursor_clause(options).condition
            atoms == {F[i] : i \in DOMAIN F} \cup {cursor}
        IN \A truth \in [atoms -> BOOLEAN] :
               SqlValue(compiled.where_clause, truth) =
                   (FiltersValue(options, truth) /\ truth[cursor])

\* C14: cursor pagination is monotonic: with cursor {c, After, v} every row
\* returned has c > v and the rows are in ascending order of c, whatever
\* the filters and filter_logic; with Before, c < v in descending order.
C14_CursorMonotonic ==
    (Answered /\ options.cursor.some
        /\ Position(response.columns, options.cursor.column) # 0) =>
        LET c == Position(response.columns, options.cursor.column)
            v == options.cursor.value.n
            rows == response.rows
            after == options.cursor.direction = "After"
        IN /\ \A r \in DOMAIN rows :
                  IF after THEN rows[r][c].n > v ELSE rows[r][c].n < v
           /\ \A r1, r2 \in DOMAIN rows :
                  r1 < r2 => IF after THEN rows[r1][c].n < rows[r2][c].n
                             ELSE rows[r1][c].n > rows[r2][c].n

\* C15: next_cursor is present exactly when a cursor was used and the page
\* is not empty, and is then the cursor column's value in the last row
\* returned, for every projection, selected_columns without the cursor
\* column included.
C15_NextCursorOfLastRow ==
    Answered =>
        LET used == options.cursor.some /\ response.rows # << >>
            c == Position(response.columns, options.cursor.column)
        IN /\ (response.next_cursor # None) = used
           /\ (used /\ c # 0) =>
                  response.next_cursor = response.rows[Len(response.rows)][c]

\* ASC for After and Asc, DESC for Before and Desc.
OrderWord(direction) ==
    IF direction \in {"After", "Asc"} THEN " ASC" ELSE " DESC"

\* The last n pieces of a text.
Ending(pieces, n) == SubSeq(pieces, Len(pieces) - n + 1, Len(pieces))

\* C16: cursor and sort/offset are alternatives, the cursor first: with a
\* cursor the query is ordered by the cursor column only (ASC for After,
\* DESC for Before) whatever sort says, and ends with LIMIT n and no
\* OFFSET whatever offset says; with no cursor it is ordered by sort if
\* there is one, not ordered otherwise, and ends with LIMIT n OFFSET o.
C16_CursorOverridesSortAndOffset ==
    Compiled =>
        LET o == options
            order == Text(compiled.order_clause)
            page == Text(compiled.pagination)
            tail == compiled.order_clause \o compiled.pagination
        IN /\ Ending(compiled.query, Len(tail)) = tail
           /\ o.cursor.some =>
                  /\ order = " ORDER BY \"" \o o.cursor.column \o "\""
                                \o OrderWord(o.cursor.direction)
                  /\ page = " LIMIT " \o ToString(o.limit)
           /\ (~o.cursor.some /\ o.sort.some) =>
                  order = " ORDER BY \"" \o o.sort.column \o "\""
                              \o OrderWord(o.sort.direction)
           /\ (~o.cursor.some /\ ~o.sort.some) => order = ""
           /\ ~o.cursor.some =>
                  page = " LIMIT " \o ToString(o.limit)
                             \o " OFFSET " \o ToString(o.offset)

\* C16 witness: a request with a cursor, a sort the other way and an
\* offset has been compiled.
C16_Witness ==
    /\ Compiled
    /\ options.cursor.some /\ options.cursor.direction = "After"
    /\ options.sort.some /\ options.sort.direction = "Desc"
    /\ options.offset > 0

\* build_where_clause has been called.
Built == qpc = "built"

\* A JSON number or string.
Scalar(v) == v.t \in {"number", "string"}

\* C17: a single Equals filter on column col with a scalar value compiles
\* to the clause ` WHERE "col" = $1` and to the one parameter, the value's
\* text.
C17_SingleEquals ==
    (/\ Built
     /\ Len(options.filters) = 1
     /\ options.filters[1].operator = "Equals"
     /\ Scalar(options.filters[1].value)) =>
        LET f == options.filters[1]
        IN /\ Text(compiled.clause) = " WHERE \"" \o f.column \o "\" = $1"
           /\ compiled.params =
                  <<IF f.value.t = "number" THEN ToString(f.value.n)
                    ELSE f.value.s>>

\* C17 witness: {name, Equals, "s"} alone has been compiled.
C17_Witness ==
    /\ Built
    /\ options.filters =
           <<[column |-> "name", operator |-> "Equals", value |-> JStr("s")]>>
    /\ Text(compiled.clause) = " WHERE \"name\" = $1"
    /\ compiled.params = <<"s">>

\* The operators that read the filter's value.
ValueOperators == FilterOperators \ {"IsNull", "IsNotNull"}

\* The filter has a value its operator can use: a value, a list that is
\* not empty for In.
Resolvable(f) ==
    /\ f.operator \in ValueOperators
    /\ f.value # None
    /\ f.operator = "In" => (f.value.t = "array" /\ f.value.a # << >>)

\* The placeholders a filter stands for: one per element of an In list,
\* one for any other resolvable value, none otherwise.
PlaceholdersOf(f) ==
    IF ~Resolvable(f) THEN 0
    ELSE IF f.operator = "In" THEN Len(f.value.a) ELSE 1

RECURSIVE PlaceholderCount(_)
PlaceholderCount(filters) ==
    IF filters = << >> THEN 0
    ELSE PlaceholdersOf(Head(filters)) + PlaceholderCount(Tail(filters))

\* The filter is compiled to a condition.
Kept(f) == f.operator \in {"IsNull", "IsNotNull"} \/ Resolvable(f)
KeptFilters(filters) == SelectSeq(filters, Kept)

\* The " AND " / " OR " pieces of a clause.
Joiners(clause) ==
    LET IsJoiner(piece) == piece \in {" AND ", " OR "}
    IN SelectSeq(clause, IsJoiner)

\* The conditions are joined by " AND " alone under And, " OR " alone under
\* Or, one joiner between two conditions.
JoinedUniformly ==
    LET js == Joiners(compiled.clause)
        kept == Len(KeptFilters(options.filters))
    IN /\ \A i \in DOMAIN js :
              js[i] = IF options.filter_logic = "And" THEN " AND " ELSE " OR "
       /\ Len(js) = IF kept = 0 THEN 0 ELSE kept - 1

\* C18 as stated: the clause holds exactly one placeholder per filter with
\* a resolvable value, every operator alike, In with several values
\* included, and the conditions are joined uniformly.
C18_OnePlaceholderPerFilter ==
    Built =>
        /\ Len(Placeholders(compiled.clause)) =
               Cardinality({i \in DOMAIN options.filters :
                               Resolvable(options.filters[i])})
        /\ JoinedUniformly

\* C18 amended: the clause holds one placeholder per parameter: one per
\* filter with a resolvable value, except an In filter, which has one per
\* element of its list; the conditions are joined uniformly.
C18_OnePlaceholderPerParameter ==
    Built =>
        /\ Len(Placeholders(compiled.clause)) = Len(compiled.params)
        /\ Len(compiled.params) = PlaceholderCount(options.filters)
        /\ JoinedUniformly

\* C18 witness: an In filter with a list of two and a filter with one
\* value, joined by OR, have been compiled to three placeholders.
C18_Witness ==
    /\ Built
    /\ options.filter_logic = "Or"
    /\ Len(options.filters) = 2
    /\ options.filters[1].operator = "In"
    /\ Resolvable(options.filters[1]) /\ Resolvable(options.filters[2])
    /\ Len(Placeholders(compiled.clause)) = 3

\* C19: the placeholders of the complete query are numbered in a row: the
\* k-th placeholder is $k, for the k-th parameter, the cursor's being the
\* last; no placeholder is without a number.
C19_PlaceholdersNumbered ==
    Compiled =>
        LET phs == Placeholders(compiled.query)
            cursor == build_cursor_clause(options)
            params == build_where_clause(options).params
                          \o (IF cursor.some THEN <<cursor.param>> ELSE << >>)
        IN /\ Len(phs) = Len(params)
           /\ \A k \in DOMAIN phs : phs[k] = "$" \o ToString(k)

\* The conditions of a clause, split at its joiners.
ConditionsOf(clause, logic) ==
    IF clause = << >> THEN << >>
    ELSE Split(Tail(clause), IF logic = "And" THEN " AND " ELSE " OR ")

\* C20: a filter whose operator needs a value and has none, and an In
\* filter whose value is not a list or is an empty list, are left out; the
\* other filters give one condition each, in order; with no filter, or
\* every filter left out, the clause and the parameters are empty, and the
\* clause is never a bare " WHERE ".
C20_SkippedFiltersLeaveNothing ==
    Built =>
        LET kept == KeptFilters(options.filters)
            conds == ConditionsOf(compiled.clause, options.filter_logic)
        IN /\ Len(conds) = Len(kept)
           /\ \A i \in DOMAIN conds :
                  /\ Len(conds[i]) >= 2
                  /\ conds[i][1] = "\"" \o kept[i].column \o "\""
           /\ kept = << >> =>
                  (Text(compiled.clause) = "" /\ compiled.params = << >>)
           /\ kept # << >> => compiled.clause[1] = " WHERE "
           /\ Text(compiled.clause) # " WHERE "

\* C20 witness: two filters, an Equals with no value and an In with an
\* empty list, have been compiled to nothing.
C20_Witness ==
    /\ Built
    /\ Len(options.filters) = 2
    /\ options.filters[1].operator = "Equals"
    /\ options.filters[1].value = None
    /\ options.filters[2].operator = "In"
    /\ options.filters[2].value = JArr(<< >>)
    /\ compiled.clause = << >> /\ compiled.params = << >>

\* What a filter asks of a row, by its operator and its value (Like is in no
\* request that is run).  A comparison with a NULL column is not true.
FilterHolds(f, row) ==
    LET c == row[f.column]
    IN CASE f.operator = "IsNull" -> c = JNull
         [] f.operator = "IsNotNull" -> c # JNull
         [] f.operator = "Equals" -> c # JNull /\ c = f.value
         [] f.operator = "NotEquals" -> c # JNull /\ c # f.value
         [] f.operator = "GreaterThan" -> c # JNull /\ c.n > f.value.n
         [] f.operator = "LessThan" -> c # JNull /\ c.n < f.value.n
         [] f.operator = "In" ->
                c # JNull /\ \E i \in DOMAIN f.value.a : c = f.value.a[i]
         [] OTHER -> FALSE

\* What the filters of a request ask of a row, joined per filter_logic.
FiltersMatch(o, row) ==
    LET kept == KeptFilters(o.filters)
    IN IF kept = << >> THEN TRUE
       ELSE IF o.filter_logic = "And"
       THEN \A i \in DOMAIN kept : FilterHolds(kept[i], row)
       ELSE \E i \in DOMAIN kept : FilterHolds(kept[i], row)

\* The rows of the table that the filters of a request ask for.
FilteredRows(o) ==
    LET Test(row) == FiltersMatch(o, row)
    IN SelectSeq(TableRows, Test)

\* C21: total_count is absent exactly when skip_count was asked for; when
\* it was not, total_count is the number of rows of the table that match
\* the filters, whatever limit and offset are.
C21_TotalCountOfMatchingRows ==
    Answered =>
        /\ response.total_count.some = ~options.skip_count
        /\ ~options.skip_count =>
               response.total_count.n = Len(FilteredRows(options))

\* The parameters of the data query, the cursor's last, and of the COUNT
\* query.
QueryParams(o) ==
    LET cursor == build_cursor_clause(o)
    IN build_where_clause(o).params
           \o (IF cursor.some THEN <<cursor.param>> ELSE << >>)
CountParams(o) == build_where_clause(o).params

\* C28: every placeholder of a query that fetch_table_data executes has
\* its parameter bound: the COUNT query is executed with the parameters of
\* build_where_clause bound, the data query with those and the cursor's.
C28_ParametersBound ==
    (qpc = "done" /\ engine \in Relational) =>
        /\ ~options.skip_count =>
               /\ compiled.count_binds = CountParams(options)
               /\ Len(compiled.count_binds) =
                      Len(Placeholders(compiled.count_where))
        /\ (response.kind = "Ok" \/ response = Err("Query", "fetch_all")) =>
               /\ compiled.binds = QueryParams(options)
               /\ Len(compiled.binds) = Len(Placeholders(compiled.query))

\* a is the beginning of b.
IsPrefix(a, b) == Len(a) <= Len(b) /\ a = SubSeq(b, 1, Len(a))

\* The rows the filters ask for, in ascending order of the cursor column,
\* as the response spells them.
RowsInOrder(o) ==
    RowData(SortRows(FilteredRows(o), o.cursor.column, TRUE), ColumnNames(o))

\* C30: paging forward by feeding next_cursor back gives every row that
\* matches the filters exactly once, in ascending order of the cursor
\* column, none skipped or repeated, and ends with an empty page: what has
\* been returned is always the beginning of the matching rows in order, and
\* is all of them when the empty page comes.
C30_PagingReturnsEveryRowOnce ==
    (Answered /\ options.cursor.some /\ options.cursor.direction = "After") =>
        /\ IsPrefix(returned, RowsInOrder(options))
        /\ response.rows = << >> => returned = RowsInOrder(options)

\* The quotes of identifiers in the dialect of an engine.
DialectQuotes(kind) == IF kind = "MySQL" THEN "backticks" ELSE "double quotes"

\* The quotes a piece of text puts around a name, if it spells the name.
QuotesOf(piece, name) ==
    IF piece = "\"" \o name \o "\"" THEN "double quotes"
    ELSE IF piece = name THEN "none"
    ELSE "not the name"

\* The identifiers a request names: the table, and the columns of its
\* filters that are kept, of its sort, of its cursor and of its projection.
IdentifiersOf(o) ==
    LET kept == KeptFilters(o.filters)
    IN {TableName}
       \cup {kept[i].column : i \in DOMAIN kept}
       \cup (IF o.sort.some THEN {o.sort.column} ELSE {})
       \cup (IF o.cursor.some THEN {o.cursor.column} ELSE {})
       \cup {o.selected_columns[i] : i \in DOMAIN o.selected_columns}

\* C22: every identifier in the text compiled from the QueryOptions is
\* quoted for the dialect of the pool: double quotes for Postgres and
\* SQLite, backticks for MySQL.
C22_IdentifiersQuotedForDialect ==
    (Compiled /\ engine \in Relational) =>
        \A name \in IdentifiersOf(options) :
            \A i \in DOMAIN compiled.query :
                QuotesOf(compiled.query[i], name) \in
                    {"not the name", DialectQuotes(engine)}

\* Task t has just had a connect fail.
ConnectFailed(t) ==
    /\ call'[t].op = "connect"
    /\ ret'[t].kind = "Err"
    /\ (call'[t] # call[t] \/ ret'[t] # ret[t])

\* Task t has just had the answer of is_connected.
IsConnectedAnswered(t) ==
    /\ pc[t] = "isc_lock"
    /\ pc'[t] = "idle"

\* C29: a connect that fails leaves the registry as it was: nothing is put
\* in for the id, and a pool the id already had stays in and open; and
\* is_connected(id) answers true exactly when a connect of id has
\* succeeded and no disconnect of id has completed since the last one.
C29_FailedConnectLeavesRegistry ==
    [][\A t \in Tasks :
          /\ ConnectFailed(t) => (pools' = pools /\ arena' = arena)
          /\ IsConnectedAnswered(t) =>
                 ret'[t].value = (lastDone[call[t].id] = "connect")]_vars

\* C29 witness: a connect of an id has failed while the id has the pool of
\* an earlier connect, and is_connected of that id has answered true.
C29_Witness ==
    \E t, u \in Tasks :
        /\ call[t].op = "connect"
        /\ ret[t] = Err("Connection", "create_pool")
        /\ pools[call[t].id] # NoPool
        /\ Live(pools[call[t].id])
        /\ call[u] = [op |-> "is_connected", id |-> call[t].id]
        /\ ret[u] = [kind |-> "Ok", value |-> TRUE]

\* The command has returned.
Commanded == cpc = "done"

\* The statement of the command was executed with success.
Succeeded ==
    IF command.op = "execute_sql_safe" THEN result.success
    ELSE result.kind = "Ok"

\* The first words of the statements that change the schema.
SchemaWords == {"CREATE", "create", "DROP", "Drop", "ALTER", "TRUNCATE"}

\* C23: a schema-changed event with the connection id is emitted after
\* every DDL execution that succeeded and after every raw SQL execution
\* that succeeded and whose statement begins with CREATE, DROP, ALTER or
\* TRUNCATE, through execute_query and execute_sql_safe alike; none is
\* emitted when the statement failed.
C23_SchemaChangedEmitted ==
    (Commanded /\ command.op \in {"execute_query", "execute_sql_safe",
                                  "execute_ddl"}) =>
        LET changes == \/ command.op = "execute_ddl"
                       \/ command.sql[2] \in SchemaWords
        IN events = IF Succeeded /\ changes
                    THEN <<SchemaChanged(command.id)>>
                    ELSE << >>

\* The engines that have no views, functions, foreign keys or indexes to
\* list.
NotStructured == {"Redis", "MongoDB", "SQLServer"}

\* C25: on a pool of kind Redis, MongoDB or SQL Server, list_views,
\* list_functions, get_table_foreign_keys and get_table_indexes return Ok
\* with an empty list, never an error, and send no query.
C25_UnsupportedListsAreEmpty ==
    (/\ Commanded
     /\ command.op \in {"list_views", "list_functions",
                         "get_table_foreign_keys", "get_table_indexes"}
     /\ directory[command.id] \in NotStructured) =>
        /\ result = [kind |-> "Ok", value |-> << >>]
        /\ issued = << >>

\* C25 witness: get_table_foreign_keys has returned on a Redis pool.
C25_Witness ==
    /\ Commanded
    /\ command.op = "get_table_foreign_keys"
    /\ directory[command.id] = "Redis"
    /\ result = [kind |-> "Ok", value |-> << >>]

\* The statements of a generated text, and what a statement does.
StatementsOfText(text) == Split(text, "\n")
Renames(statement) == Has(statement, " RENAME COLUMN ")
Retypes(statement) == Has(statement, " TYPE ")
SetsNull(statement) ==
    Has(statement, "SET NOT NULL") \/ Has(statement, "DROP NOT NULL")

\* What C26 says of MySQL, SQLite and the other engines: one CHANGE COLUMN
\* statement; an error that tells to recreate the table; an error.
ModifyElsewhere ==
    LET kind == directory[command.id]
    IN /\ kind = "MySQL" =>
              /\ result.kind = "Ok"
              /\ Len(StatementsOfText(result.value)) = 1
              /\ Has(result.value, " CHANGE COLUMN ")
       /\ kind = "SQLite" =>
              result = Err("Query",
                  "SQLite does not support modifying columns. Recreate the table.")
       /\ kind \notin Relational => result.kind = "Err"

\* C26 as stated: for Postgres a column modification is three statements,
\* rename, then type, then nullability; for MySQL one CHANGE COLUMN
\* statement; for SQLite an error telling to recreate the table; no SQL
\* text for SQLite or a non-relational engine.
C26_ModifyIsThreeStatements ==
    (Commanded /\ command.op = "generate_modify_column_sql") =>
        /\ ModifyElsewhere
        /\ directory[command.id] = "Postgres" =>
               /\ result.kind = "Ok"
               /\ LET st == StatementsOfText(result.value)
                  IN /\ Len(st) = 3
                     /\ Renames(st[1])
                     /\ Retypes(st[2])
                     /\ SetsNull(st[3])

\* C26 amended: for Postgres the statements are the rename, only when the
\* name changes, then the type, then the nullability: three statements
\* when the column is renamed, two when it keeps its name; the rest as
\* stated.
C26_ModifyRenamesWhenNamed ==
    (Commanded /\ command.op = "generate_modify_column_sql") =>
        /\ ModifyElsewhere
        /\ directory[command.id] = "Postgres" =>
               /\ result.kind = "Ok"
               /\ LET st == StatementsOfText(result.value)
                      renamed == command.old_name # command.new_column.name
                      k == IF renamed THEN 1 ELSE 0
                  IN /\ Len(st) = k + 2
                     /\ renamed => Renames(st[1])
                     /\ Retypes(st[k + 1])
                     /\ SetsNull(st[k + 2])
                     /\ \A i \in DOMAIN st : Renames(st[i]) => (renamed /\ i = 1)

\* C26 witness: a column has been renamed, retyped and set NOT NULL on
\* Postgres, in three statements.
C26_Witness ==
    /\ Commanded
    /\ command.op = "generate_modify_column_sql"
    /\ directory[command.id] = "Postgres"
    /\ command.old_name # command.new_column.name
    /\ ~command.new_column.nullable
    /\ result.kind = "Ok"
    /\ Len(StatementsOfText(result.value)) = 3

\* The columns of the request as get_table_schema would report them.
RequestedColumns ==
    [i \in DOMAIN command.request.columns |->
        [name |-> command.request.columns[i].name,
         data_type |-> command.request.columns[i].data_type,
         nullable |-> command.request.columns[i].nullable]]
ReadBackColumns ==
    [i \in DOMAIN result.value |->
        [name |-> result.value[i].name,
         data_type |-> result.value[i].data_type,
         nullable |-> result.value[i].nullable]]

\* C27: on a relational engine, the table created on a fresh database
\* from the text of generate_create_table_sql is read back by
\* get_table_schema with the requested columns in the requested order,
\* each with the requested name, type and nullability.
C27_CreateTableRoundTrip ==
    (/\ Commanded
     /\ command.op = "create_table"
     /\ directory[command.id] \in Relational) =>
        /\ result.kind = "Ok"
        /\ ReadBackColumns = RequestedColumns

\* The names of the schema that contain the search, letters compared
\* without case, in lexical order, from the offset and up to the limit.
SearchedTables ==
    Slice(SortedNames(SelectSeq(catalog, LAMBDA n :
              contains(to_lowercase(Chars(n)),
                       to_lowercase(Chars(command.search.value))))),
          command.limit, command.offset)

\* C24: on every engine that lists tables, list_tables with a search
\* returns exactly the names that contain it as a substring, compared
\* without case, in lexical order, with offset and limit applied to that
\* ordered list.
C24_ListTablesSearch ==
    (/\ Commanded
     /\ command.op = "list_tables"
     /\ command.search.some
     /\ directory[command.id] # "SQLServer") =>
        result = OkOf(SearchedTables)

====
